---- MODULE Spec2Model ----
(***************************************************************************)
(* A model of the Shared Memory Object Store (SMOS): the DataTrack         *)
(* (free-block pool, live-entry map, next key), the SharedMemoryObject     *)
(* that fans every call out over its tracks under an RWLock, and the       *)
(* clients that hold write handles, read references and popped handles.    *)
(***************************************************************************)
EXTENDS Integers, Sequences, FiniteSets, TLC

(* ------------------------------------------------------------------ *)
(* Program constants                                                  *)
(* ------------------------------------------------------------------ *)
SMOS_FAIL == -1
SMOS_SUCCESS == 0
SMOS_PERMISSION_DENIED == 1

\* EntryConfig.__init__ default: mapped_block_idx=-1 (no block reserved).
UNALLOCATED == -1
\* EntryConfig.__init__ default: track_name=None; track names are the
\* ordinals 0..track_count-1, so None is modelled by a number that names
\* no track.
NONE_NAME == -1

(* ------------------------------------------------------------------ *)
(* Bounds                                                             *)
(* ------------------------------------------------------------------ *)
\* max_capacity of the object: blocks per track.
MaxCapacity == 2
\* track_count of the object.
TrackCount == 2
\* Appends are issued while next_key < MaxKey.
MaxKey == 3
\* Reads are issued while fewer than MaxRefs read references are outstanding.
MaxRefs == 1
\* Concurrent clients issue appends while next_key < MaxConcKey.
MaxConcKey == 2
\* batch_read_entry_config is called with at most MaxBatch keys.
MaxBatch == 3
MaxBlockSize == 2
MaxTypeErrors == 13

TrackIdx == 1..TrackCount
Keys == 0..(MaxKey - 1)

\* Python's None for a descriptor list or a key: the empty tuple; a key k
\* that is present is <<k>>.
None == <<>>

(* ------------------------------------------------------------------ *)
(* Sequences and maps                                                 *)
(* ------------------------------------------------------------------ *)
Range(s) == {s[i] : i \in DOMAIN s}

SetMax(S) == CHOOSE x \in S : \A y \in S : y <= x
SetMin(S) == CHOOSE x \in S : \A y \in S : x <= y

\* del d[k]
DictDel(d, k) == [x \in (DOMAIN d) \ {k} |-> d[x]]
\* d[k] = v
DictPut(d, k, v) == [x \in (DOMAIN d) \cup {k} |-> IF x = k THEN v ELSE d[x]]

(* ------------------------------------------------------------------ *)
(* EntryConfig                                                        *)
(* ------------------------------------------------------------------ *)
\* The management fields of a descriptor; dtype, shape and is_numpy describe
\* the payload and are never read by the store.
EntryConfig ==
    [track_name |-> NONE_NAME, mapped_block_idx |-> UNALLOCATED,
     pending_readers |-> 0]

(* ------------------------------------------------------------------ *)
(* DataTrack                                                          *)
(* ------------------------------------------------------------------ *)
\* range(max_capacity) put into the queue in order
InitialFreeBlocks(n) == [i \in 1..n |-> i - 1]

DataTrack(track_name, max_capacity) ==
    [track_name |-> track_name,
     max_capacity |-> max_capacity,
     entry_config_list |-> <<>>,
     next_key |-> 0,
     free_block_list |-> InitialFreeBlocks(max_capacity)]

\* Every track call returns the track after the call, the exception it
\* raised ("" when it returned), its status and what else it returns.
\* key is the key the call assigned (append) or took (pop).
TrackResult(track, raised, status, entry_config, key) ==
    [track |-> track, raised |-> raised, status |-> status,
     entry_config |-> entry_config, key |-> key]

\* Variant: allocate_block that fails while one block is still in the pool.
DT_allocate_block_keep_one(tr, entry_config) ==
    IF Len(tr.free_block_list) <= 1
    THEN TrackResult(tr, "", SMOS_FAIL, entry_config, None)
    ELSE TrackResult([tr EXCEPT !.free_block_list = Tail(@)], "", SMOS_SUCCESS,
                     [entry_config EXCEPT
                        !.mapped_block_idx = Head(tr.free_block_list),
                        !.track_name = tr.track_name],
                     None)

\* Variant: the block is handed out and stays in the pool.
DT_allocate_block_peek(tr, entry_config) ==
    IF tr.free_block_list = <<>>
    THEN TrackResult(tr, "", SMOS_FAIL, entry_config, None)
    ELSE TrackResult(tr, "", SMOS_SUCCESS,
                     [entry_config EXCEPT
                        !.mapped_block_idx = Head(tr.free_block_list),
                        !.track_name = tr.track_name],
                     None)

DT_allocate_block(tr, entry_config) ==
    IF tr.free_block_list = <<>>
    THEN TrackResult(tr, "", SMOS_FAIL, entry_config, None)
    ELSE TrackResult([tr EXCEPT !.free_block_list = Tail(@)], "", SMOS_SUCCESS,
                     [entry_config EXCEPT
                        !.mapped_block_idx = Head(tr.free_block_list),
                        !.track_name = tr.track_name],
                     None)

\* Variant: append_entry_config that takes len(entry_config_list) as the key.
DT_append_entry_config_reuse(tr, entry_config) ==
    LET key == Cardinality(DOMAIN tr.entry_config_list)
    IN IF entry_config.mapped_block_idx = UNALLOCATED
       THEN TrackResult(tr, "SMOSEntryUnallocated", SMOS_FAIL, entry_config, None)
       ELSE IF entry_config.track_name # tr.track_name
       THEN TrackResult(tr, "SMOSTrackMismatch", SMOS_FAIL, entry_config, None)
       ELSE TrackResult([tr EXCEPT
                           !.entry_config_list = DictPut(@, key, entry_config),
                           !.next_key = key + 1],
                        "", SMOS_SUCCESS, entry_config, <<key>>)

DT_append_entry_config(tr, entry_config) ==
    IF entry_config.mapped_block_idx = UNALLOCATED
    THEN TrackResult(tr, "SMOSEntryUnallocated", SMOS_FAIL, entry_config, None)
    ELSE IF entry_config.track_name # tr.track_name
    THEN TrackResult(tr, "SMOSTrackMismatch", SMOS_FAIL, entry_config, None)
    ELSE TrackResult([tr EXCEPT
                        !.entry_config_list = DictPut(@, tr.next_key, entry_config),
                        !.next_key = @ + 1],
                     "", SMOS_SUCCESS, entry_config, <<tr.next_key>>)

DT_read_entry_config(tr, idx) ==
    IF idx \in DOMAIN tr.entry_config_list
    THEN LET ec == [tr.entry_config_list[idx] EXCEPT !.pending_readers = @ + 1]
         IN TrackResult([tr EXCEPT !.entry_config_list[idx] = ec],
                        "", SMOS_SUCCESS, ec, None)
    ELSE TrackResult(tr, "", SMOS_FAIL, None, None)

\* Variant: read_latest_entry_config that takes the smallest key.
DT_read_latest_entry_config_oldest(tr) ==
    IF DOMAIN tr.entry_config_list = {}
    THEN TrackResult(tr, "", SMOS_FAIL, None, None)
    ELSE LET idx == SetMin(DOMAIN tr.entry_config_list)
             ec == [tr.entry_config_list[idx] EXCEPT !.pending_readers = @ + 1]
         IN TrackResult([tr EXCEPT !.entry_config_list[idx] = ec],
                        "", SMOS_SUCCESS, ec, <<idx>>)

\* max() of no keys raises ValueError, which is caught: SMOS_FAIL
DT_read_latest_entry_config(tr) ==
    IF DOMAIN tr.entry_config_list = {}
    THEN TrackResult(tr, "", SMOS_FAIL, None, None)
    ELSE LET idx == SetMax(DOMAIN tr.entry_config_list)
             ec == [tr.entry_config_list[idx] EXCEPT !.pending_readers = @ + 1]
         IN TrackResult([tr EXCEPT !.entry_config_list[idx] = ec],
                        "", SMOS_SUCCESS, ec, <<idx>>)

\* Variant: a release that finds no reader answers SMOS_FAIL and raises
\* nothing.
DT_release_read_reference_silent(tr, idx) ==
    IF idx \in DOMAIN tr.entry_config_list
    THEN LET ec == [tr.entry_config_list[idx] EXCEPT !.pending_readers = @ - 1]
             after == [tr EXCEPT !.entry_config_list[idx] = ec]
         IN IF ec.pending_readers < 0
            THEN TrackResult(tr, "", SMOS_FAIL, None, None)
            ELSE TrackResult(after, "", SMOS_SUCCESS, None, None)
    ELSE TrackResult(tr, "", SMOS_FAIL, None, None)

DT_release_read_reference(tr, idx) ==
    IF idx \in DOMAIN tr.entry_config_list
    THEN LET ec == [tr.entry_config_list[idx] EXCEPT !.pending_readers = @ - 1]
             after == [tr EXCEPT !.entry_config_list[idx] = ec]
         IN IF ec.pending_readers < 0
            THEN TrackResult(after, "SMOSReadRefDoubleRelease", SMOS_FAIL, None, None)
            ELSE TrackResult(after, "", SMOS_SUCCESS, None, None)
    ELSE TrackResult(tr, "", SMOS_FAIL, None, None)

\* Variant: delete_entry_config that never puts the block back.
DT_delete_entry_config_leak(tr, idx, force_delete) ==
    IF idx \in DOMAIN tr.entry_config_list
    THEN LET delete_permission == (tr.entry_config_list[idx].pending_readers = 0)
         IN IF ~delete_permission /\ ~force_delete
            THEN TrackResult(tr, "", SMOS_PERMISSION_DENIED, None, None)
            ELSE TrackResult([tr EXCEPT !.entry_config_list = DictDel(@, idx)],
                             "", SMOS_SUCCESS, None, None)
    ELSE TrackResult(tr, "", SMOS_FAIL, None, None)

\* Variant: delete_entry_config that does not look at pending_readers.
DT_delete_entry_config_unchecked(tr, idx, force_delete) ==
    IF idx \in DOMAIN tr.entry_config_list
    THEN LET block_idx == tr.entry_config_list[idx].mapped_block_idx
             deleted == [tr EXCEPT !.entry_config_list = DictDel(@, idx)]
         IN IF block_idx \in Range(tr.free_block_list)
            THEN TrackResult(deleted, "SMOSBlockDoubleRelease", SMOS_FAIL, None, None)
            ELSE TrackResult([deleted EXCEPT !.free_block_list = Append(@, block_idx)],
                             "", SMOS_SUCCESS, None, None)
    ELSE TrackResult(tr, "", SMOS_FAIL, None, None)

\* Variant: the KeyError of a missing key is not caught.
DT_delete_entry_config_keyerror(tr, idx, force_delete) ==
    IF idx \in DOMAIN tr.entry_config_list
    THEN LET delete_permission == (tr.entry_config_list[idx].pending_readers = 0)
             block_idx == tr.entry_config_list[idx].mapped_block_idx
             deleted == [tr EXCEPT !.entry_config_list = DictDel(@, idx)]
         IN IF ~delete_permission /\ ~force_delete
            THEN TrackResult(tr, "", SMOS_PERMISSION_DENIED, None, None)
            ELSE IF block_idx \in Range(tr.free_block_list)
            THEN TrackResult(deleted, "SMOSBlockDoubleRelease", SMOS_FAIL, None, None)
            ELSE TrackResult([deleted EXCEPT !.free_block_list = Append(@, block_idx)],
                             "", SMOS_SUCCESS, None, None)
    ELSE TrackResult(tr, "KeyError", SMOS_FAIL, None, None)

DT_delete_entry_config(tr, idx, force_delete) ==
    IF idx \in DOMAIN tr.entry_config_list
    THEN LET delete_permission == (tr.entry_config_list[idx].pending_readers = 0)
             block_idx == tr.entry_config_list[idx].mapped_block_idx
             deleted == [tr EXCEPT !.entry_config_list = DictDel(@, idx)]
         IN IF ~delete_permission /\ ~force_delete
            THEN TrackResult(tr, "", SMOS_PERMISSION_DENIED, None, None)
            ELSE IF block_idx \in Range(tr.free_block_list)
            THEN TrackResult(deleted, "SMOSBlockDoubleRelease", SMOS_FAIL, None, None)
            ELSE TrackResult([deleted EXCEPT !.free_block_list = Append(@, block_idx)],
                             "", SMOS_SUCCESS, None, None)
    ELSE TrackResult(tr, "", SMOS_FAIL, None, None)

\* Variant: pop_entry_config that takes the largest key.
DT_pop_entry_config_newest(tr, force_pop) ==
    IF DOMAIN tr.entry_config_list = {}
    THEN TrackResult(tr, "", SMOS_FAIL, None, None)
    ELSE LET entry_idx == SetMax(DOMAIN tr.entry_config_list)
             pop_permission == (tr.entry_config_list[entry_idx].pending_readers = 0)
         IN IF ~pop_permission /\ ~force_pop
            THEN TrackResult(tr, "", SMOS_PERMISSION_DENIED, None, None)
            ELSE TrackResult([tr EXCEPT !.entry_config_list = DictDel(@, entry_idx)],
                             "", SMOS_SUCCESS, tr.entry_config_list[entry_idx],
                             <<entry_idx>>)

\* Variant: pop_entry_config that, unforced, passes over the keys that have
\* readers and takes the smallest key that has none.
DT_pop_entry_config_skip_busy(tr, force_pop) ==
    LET candidates == {k \in DOMAIN tr.entry_config_list :
                          force_pop \/ tr.entry_config_list[k].pending_readers = 0}
    IN IF DOMAIN tr.entry_config_list = {}
       THEN TrackResult(tr, "", SMOS_FAIL, None, None)
       ELSE IF candidates = {}
       THEN TrackResult(tr, "", SMOS_PERMISSION_DENIED, None, None)
       ELSE LET entry_idx == SetMin(candidates)
            IN TrackResult([tr EXCEPT !.entry_config_list = DictDel(@, entry_idx)],
                           "", SMOS_SUCCESS, tr.entry_config_list[entry_idx],
                           <<entry_idx>>)

\* Variant: pop_entry_config that puts the block back as delete does.
DT_pop_entry_config_eager_free(tr, force_pop) ==
    IF DOMAIN tr.entry_config_list = {}
    THEN TrackResult(tr, "", SMOS_FAIL, None, None)
    ELSE LET entry_idx == SetMin(DOMAIN tr.entry_config_list)
             pop_permission == (tr.entry_config_list[entry_idx].pending_readers = 0)
         IN IF ~pop_permission /\ ~force_pop
            THEN TrackResult(tr, "", SMOS_PERMISSION_DENIED, None, None)
            ELSE TrackResult([tr EXCEPT
                                !.entry_config_list = DictDel(@, entry_idx),
                                !.free_block_list =
                                    Append(@, tr.entry_config_list[entry_idx].mapped_block_idx)],
                             "", SMOS_SUCCESS, tr.entry_config_list[entry_idx],
                             <<entry_idx>>)

\* Variant: an empty track answers SMOS_PERMISSION_DENIED.
DT_pop_entry_config_empty_denied(tr, force_pop) ==
    IF DOMAIN tr.entry_config_list = {}
    THEN TrackResult(tr, "", SMOS_PERMISSION_DENIED, None, None)
    ELSE LET entry_idx == SetMin(DOMAIN tr.entry_config_list)
             pop_permission == (tr.entry_config_list[entry_idx].pending_readers = 0)
         IN IF ~pop_permission /\ ~force_pop
            THEN TrackResult(tr, "", SMOS_PERMISSION_DENIED, None, None)
            ELSE TrackResult([tr EXCEPT !.entry_config_list = DictDel(@, entry_idx)],
                             "", SMOS_SUCCESS, tr.entry_config_list[entry_idx],
                             <<entry_idx>>)

DT_pop_entry_config(tr, force_pop) ==
    IF DOMAIN tr.entry_config_list = {}
    THEN TrackResult(tr, "", SMOS_FAIL, None, None)
    ELSE LET entry_idx == SetMin(DOMAIN tr.entry_config_list)
             pop_permission == (tr.entry_config_list[entry_idx].pending_readers = 0)
         IN IF ~pop_permission /\ ~force_pop
            THEN TrackResult(tr, "", SMOS_PERMISSION_DENIED, None, None)
            ELSE TrackResult([tr EXCEPT !.entry_config_list = DictDel(@, entry_idx)],
                             "", SMOS_SUCCESS, tr.entry_config_list[entry_idx],
                             <<entry_idx>>)

DT_free_block_mapping(tr, entry_config) ==
    IF entry_config.track_name # tr.track_name
    THEN TrackResult(tr, "SMOSTrackMismatch", SMOS_FAIL, None, None)
    ELSE IF entry_config.mapped_block_idx \in Range(tr.free_block_list)
    THEN TrackResult(tr, "SMOSBlockDoubleRelease", SMOS_FAIL, None, None)
    ELSE TrackResult([tr EXCEPT
                        !.free_block_list = Append(@, entry_config.mapped_block_idx)],
                     "", SMOS_SUCCESS, None, None)

(* ------------------------------------------------------------------ *)
(* RWLock: three mutexes (TRUE: held) and the reader counter          *)
(* ------------------------------------------------------------------ *)
RWLock ==
    [reader_counter_lock |-> FALSE, writer_lock |-> FALSE,
     readwrite_lock |-> FALSE, reader_count |-> 0]

\* A call that runs alone gets through reader_enter / writer_enter without
\* waiting exactly when every mutex it acquires is free.
reader_enter_free(L) ==
    /\ ~L.writer_lock
    /\ ~L.reader_counter_lock
    /\ (L.reader_count = 0 => ~L.readwrite_lock)

reader_enter(L) ==
    [L EXCEPT !.readwrite_lock = IF L.reader_count = 0 THEN TRUE ELSE @,
              !.reader_count = @ + 1]

reader_leave(L) ==
    [L EXCEPT !.reader_count = @ - 1,
              !.readwrite_lock = IF L.reader_count - 1 = 0 THEN FALSE ELSE @]

writer_enter_free(L) == ~L.writer_lock /\ ~L.readwrite_lock

writer_enter(L) == [L EXCEPT !.writer_lock = TRUE, !.readwrite_lock = TRUE]

writer_leave(L) == [L EXCEPT !.readwrite_lock = FALSE, !.writer_lock = FALSE]

(* ------------------------------------------------------------------ *)
(* SharedMemoryObject: every call fans out over the tracks in order   *)
(* ------------------------------------------------------------------ *)
\* The loop "for track in track_list: ... track.<call>(...)": Call(tr, i)
\* is the call on track i; an exception raised by a track ends the loop.
FanOut(Call(_, _), tl) ==
    LET run[i \in 0..Len(tl)] ==
            IF i = 0
            THEN [track_list |-> tl, raised |-> "", status_list |-> <<>>,
                  entry_config_list |-> <<>>, key_list |-> <<>>]
            ELSE LET p == run[i - 1]
                     r == Call(p.track_list[i], i)
                 IN IF p.raised # ""
                    THEN p
                    ELSE [track_list |-> [p.track_list EXCEPT ![i] = r.track],
                          raised |-> r.raised,
                          status_list |-> Append(p.status_list, r.status),
                          entry_config_list |-> Append(p.entry_config_list, r.entry_config),
                          key_list |-> Append(p.key_list, r.key)]
    IN run[Len(tl)]

\* What a call of the object leaves and returns.
ObjectResult(tl, L, raised, status, entry_config_list, key) ==
    [track_list |-> tl, lock |-> L, raised |-> raised, status |-> status,
     entry_config_list |-> entry_config_list, key |-> key]

\* Variant: allocate_block that compares the lengths after its loop over
\* the tracks it has descriptors for.
SMO_allocate_block_late_check(tl, L, entry_config_list) ==
    LET n == IF Len(entry_config_list) < Len(tl) THEN Len(entry_config_list) ELSE Len(tl)
        f == FanOut(LAMBDA tr, i : DT_allocate_block(tr, entry_config_list[i]),
                    SubSeq(tl, 1, n))
        after == f.track_list \o SubSeq(tl, n + 1, Len(tl))
    IN IF Len(entry_config_list) # Len(tl)
       THEN ObjectResult(after, L, "SMOSDimensionMismatch", SMOS_FAIL, entry_config_list, None)
       ELSE IF Cardinality(Range(f.status_list)) # 1
       THEN ObjectResult(after, L, "SMOSTrackUnaligned", SMOS_FAIL,
                         f.entry_config_list, None)
       ELSE ObjectResult(after, L, "", f.status_list[1], f.entry_config_list, None)

\* entry_config_list is the caller's list, which the tracks write into.
SMO_allocate_block(tl, L, entry_config_list) ==
    IF Len(entry_config_list) # Len(tl)
    THEN ObjectResult(tl, L, "SMOSDimensionMismatch", SMOS_FAIL, entry_config_list, None)
    ELSE LET f == FanOut(LAMBDA tr, i : DT_allocate_block(tr, entry_config_list[i]), tl)
         IN IF Cardinality(Range(f.status_list)) # 1
            THEN ObjectResult(f.track_list, L, "SMOSTrackUnaligned", SMOS_FAIL,
                              f.entry_config_list, None)
            ELSE ObjectResult(f.track_list, L, "", f.status_list[1],
                              f.entry_config_list, None)

SMO_append_entry_config(tl, L, entry_config_list) ==
    IF Len(entry_config_list) # Len(tl)
    THEN ObjectResult(tl, L, "SMOSDimensionMismatch", SMOS_FAIL, entry_config_list, None)
    ELSE LET f == FanOut(LAMBDA tr, i : DT_append_entry_config(tr, entry_config_list[i]), tl)
         IN IF f.raised # ""
            THEN ObjectResult(f.track_list, writer_enter(L), f.raised, SMOS_FAIL,
                              entry_config_list, None)
            ELSE IF Cardinality(Range(f.key_list)) # 1
            THEN ObjectResult(f.track_list, writer_leave(writer_enter(L)),
                              "SMOSTrackUnaligned", SMOS_FAIL, entry_config_list, None)
            ELSE ObjectResult(f.track_list, writer_leave(writer_enter(L)), "",
                              SMOS_SUCCESS, entry_config_list, f.key_list[1])

SMO_read_entry_config(tl, L, idx) ==
    LET f == FanOut(LAMBDA tr, i : DT_read_entry_config(tr, idx), tl)
        left == reader_leave(reader_enter(L))
    IN IF Cardinality(Range(f.status_list)) # 1
       THEN ObjectResult(f.track_list, left, "SMOSTrackUnaligned", SMOS_FAIL, None, None)
       ELSE IF f.status_list[1] = SMOS_SUCCESS
       THEN ObjectResult(f.track_list, left, "", SMOS_SUCCESS, f.entry_config_list, None)
       ELSE ObjectResult(f.track_list, left, "", SMOS_FAIL, None, None)

\* The object's read_latest_entry_config, which the store calls: on the
\* reader side like read_entry_config, it returns the latest key that the
\* tracks have in common.
SMO_read_latest_entry_config(tl, L) ==
    LET f == FanOut(LAMBDA tr, i : DT_read_latest_entry_config(tr), tl)
        left == reader_leave(reader_enter(L))
    IN IF Cardinality(Range(f.status_list)) # 1
       THEN ObjectResult(f.track_list, left, "SMOSTrackUnaligned", SMOS_FAIL, None, None)
       ELSE IF f.status_list[1] = SMOS_SUCCESS
       THEN ObjectResult(f.track_list, left, "", SMOS_SUCCESS, f.entry_config_list,
                         f.key_list[1])
       ELSE ObjectResult(f.track_list, left, "", SMOS_FAIL, None, None)

SMO_release_read_reference(tl, L, idx) ==
    LET f == FanOut(LAMBDA tr, i : DT_release_read_reference(tr, idx), tl)
    IN IF f.raised # ""
       THEN ObjectResult(f.track_list, reader_enter(L), f.raised, SMOS_FAIL, None, None)
       ELSE IF Cardinality(Range(f.status_list)) # 1
       THEN ObjectResult(f.track_list, reader_leave(reader_enter(L)),
                         "SMOSTrackUnaligned", SMOS_FAIL, None, None)
       ELSE ObjectResult(f.track_list, reader_leave(reader_enter(L)), "",
                         f.status_list[1], None, None)

SMO_delete_entry_config(tl, L, idx, force_delete) ==
    LET f == FanOut(LAMBDA tr, i : DT_delete_entry_config(tr, idx, force_delete), tl)
    IN IF f.raised # ""
       THEN ObjectResult(f.track_list, writer_enter(L), f.raised, SMOS_FAIL, None, None)
       ELSE IF Cardinality(Range(f.status_list)) # 1
       THEN ObjectResult(f.track_list, writer_leave(writer_enter(L)),
                         "SMOSTrackUnaligned", SMOS_FAIL, None, None)
       ELSE ObjectResult(f.track_list, writer_leave(writer_enter(L)), "",
                         f.status_list[1], None, None)

SMO_pop_entry_config(tl, L, force_pop) ==
    LET f == FanOut(LAMBDA tr, i : DT_pop_entry_config(tr, force_pop), tl)
        left == writer_leave(writer_enter(L))
    IN IF Cardinality(Range(f.status_list)) # 1
       THEN ObjectResult(f.track_list, left, "SMOSTrackUnaligned", SMOS_FAIL, None, None)
       ELSE IF f.status_list[1] = SMOS_SUCCESS
       THEN ObjectResult(f.track_list, left, "", SMOS_SUCCESS, f.entry_config_list,
                         f.key_list[1])
       ELSE ObjectResult(f.track_list, left, "", f.status_list[1], None, None)

SMO_free_block_mapping(tl, L, entry_config_list) ==
    IF Len(entry_config_list) # Len(tl)
    THEN ObjectResult(tl, L, "SMOSDimensionMismatch", SMOS_FAIL, None, None)
    ELSE LET f == FanOut(LAMBDA tr, i : DT_free_block_mapping(tr, entry_config_list[i]), tl)
         IN ObjectResult(f.track_list, L, f.raised,
                         IF f.raised = "" THEN SMOS_SUCCESS ELSE SMOS_FAIL, None, None)

(* ------------------------------------------------------------------ *)
(* SharedMemoryObjectStore: calls on the object of a name             *)
(* ------------------------------------------------------------------ *)
\* batch_read_entry_config, the loop over idx_batch from its j-th key on:
\* read_entry_config of the object for one key after the other, appending
\* what it returns to entry_config_list_batch; the first status that is not
\* SMOS_SUCCESS ends the loop with batch_status = SMOS_FAIL.
RECURSIVE BatchLoop(_, _, _, _, _)
BatchLoop(tl, L, idx_batch, j, entry_config_list_batch) ==
    IF j > Len(idx_batch)
    THEN ObjectResult(tl, L, "", SMOS_SUCCESS, entry_config_list_batch, None)
    ELSE LET r == SMO_read_entry_config(tl, L, idx_batch[j])
             batch == Append(entry_config_list_batch, r.entry_config_list)
         IN IF r.raised # ""
            THEN ObjectResult(r.track_list, r.lock, r.raised, SMOS_FAIL, None, None)
            ELSE IF r.status # SMOS_SUCCESS
            THEN ObjectResult(r.track_list, r.lock, "", SMOS_FAIL, None, None)
            ELSE BatchLoop(r.track_list, r.lock, idx_batch, j + 1, batch)

\* Variant: a batch read that stops at the first missing key and reports
\* SMOS_SUCCESS with what it has read.
Store_batch_read_entry_config_partial(tl, L, idx_batch) ==
    LET r == BatchLoop(tl, L, idx_batch, 1, <<>>)
    IN [r EXCEPT !.status = SMOS_SUCCESS]

\* batch_read_entry_config on the object: (SMOS_SUCCESS,
\* entry_config_list_batch) or (SMOS_FAIL, None)
Store_batch_read_entry_config(tl, L, idx_batch) ==
    BatchLoop(tl, L, idx_batch, 1, <<>>)

(* ------------------------------------------------------------------ *)
(* State                                                              *)
(* ------------------------------------------------------------------ *)
VARIABLES
    track_list,     \* SharedMemoryObject.track_list: the DataTracks
    lock,           \* SharedMemoryObject.lock: the RWLock
    write_handles,  \* clients: descriptor lists allocated, not yet committed
    pop_handles,    \* clients: descriptor lists popped, not yet freed
    read_refs,      \* clients: key -> read references not yet released
    keys_returned,  \* history: the keys returned by successful appends, in order
    committed,      \* history: live key -> the descriptor list committed under it
    last,           \* the last completed call: its arguments and its result
    thread,         \* SpecConc: the server threads, each running one call
    object_dict,    \* SharedMemoryObjectStore.object_dict: name -> objects stored under it
    global_lock     \* SharedMemoryObjectStore.global_lock: the RWLock

vars == <<track_list, lock, write_handles, pop_handles, read_refs,
          keys_returned, committed, last, thread, object_dict, global_lock>>

\* SharedMemoryObject.__init__: track_name_list = list(range(track_count))
SharedMemoryObject_tracks(max_capacity, track_count) ==
    [i \in 1..track_count |-> DataTrack(i - 1, max_capacity)]

\* The object and the clients as a call finds them.
Snapshot ==
    [track_list |-> track_list, write_handles |-> write_handles,
     pop_handles |-> pop_handles, read_refs |-> read_refs,
     keys_returned |-> keys_returned, committed |-> committed]

\* The record of a completed call: its name and arguments, the state it
\* started from and what it returned.
Last(op, idx, force, arg, r) ==
    [op |-> op, idx |-> idx, force |-> force, arg |-> arg, pre |-> Snapshot,
     status |-> r.status, raised |-> r.raised,
     entry_config_list |-> r.entry_config_list, key |-> r.key]

\* the name the object is created under
ObjectName == "obj"

InitObject ==
    /\ track_list = SharedMemoryObject_tracks(MaxCapacity, TrackCount)
    /\ lock = RWLock
    /\ write_handles = {}
    /\ pop_handles = {}
    /\ read_refs = [k \in Keys |-> 0]
    /\ keys_returned = <<>>
    /\ committed = <<>>
    /\ object_dict = [n \in {ObjectName} |-> 1]
    /\ global_lock = RWLock
    /\ last = Last("create", None, FALSE, None,
                   ObjectResult(track_list, lock, "", SMOS_SUCCESS, None, None))

(* ------------------------------------------------------------------ *)
(* Spec: one call at a time, clients follow the handle protocol       *)
(* ------------------------------------------------------------------ *)
Init ==
    /\ InitObject
    /\ thread = <<>>

RECURSIVE SumOver(_, _)
SumOver(f, S) ==
    IF S = {} THEN 0
    ELSE LET x == CHOOSE y \in S : TRUE IN f[x] + SumOver(f, S \ {x})

OutstandingRefs == SumOver(read_refs, DOMAIN read_refs)

\* The call has run: the object is as it left it, the result is recorded.
Returned(op, idx, force, arg, r) ==
    /\ track_list' = r.track_list
    /\ lock' = r.lock
    /\ last' = Last(op, idx, force, arg, r)

\* In the actions the result of a call is bound once, as the only element of
\* a set, and named r.

\* create_entry: fresh descriptors, then allocate_block.
Allocate ==
    \E arg \in {[i \in TrackIdx |-> EntryConfig]} :
    \E r \in {SMO_allocate_block(track_list, lock, arg)} :
        /\ Returned("allocate_block", None, FALSE, arg, r)
        /\ write_handles' = IF r.raised = "" /\ r.status = SMOS_SUCCESS
                            THEN write_handles \cup {r.entry_config_list}
                            ELSE write_handles
        /\ UNCHANGED <<pop_handles, read_refs, keys_returned, committed, thread, object_dict, global_lock>>

\* commit_entry: append_entry_config with a write handle, which is then gone.
AppendEntry ==
    /\ track_list[1].next_key < MaxKey
    /\ writer_enter_free(lock)
    /\ \E h \in write_handles :
       \E r \in {SMO_append_entry_config(track_list, lock, h)} :
           /\ Returned("append_entry_config", None, FALSE, h, r)
           /\ write_handles' = write_handles \ {h}
           /\ keys_returned' = IF r.raised = "" THEN keys_returned \o r.key
                               ELSE keys_returned
           /\ committed' = IF r.raised = "" THEN DictPut(committed, r.key[1], h)
                           ELSE committed
           /\ UNCHANGED <<pop_handles, read_refs, thread, object_dict, global_lock>>

\* open_entry: read_entry_config on any key.
ReadEntry ==
    /\ OutstandingRefs < MaxRefs
    /\ lock.reader_count <= MaxRefs
    /\ reader_enter_free(lock)
    /\ \E k \in Keys :
       \E r \in {SMO_read_entry_config(track_list, lock, k)} :
           /\ Returned("read_entry_config", <<k>>, FALSE, None, r)
           /\ read_refs' = IF r.raised = "" /\ r.status = SMOS_SUCCESS
                           THEN [read_refs EXCEPT ![k] = @ + 1]
                           ELSE read_refs
           /\ UNCHANGED <<write_handles, pop_handles, keys_returned, committed, thread, object_dict, global_lock>>

\* release_entry: release_read_reference by the holder of a read handle.
ReleaseEntry ==
    /\ lock.reader_count <= MaxRefs
    /\ reader_enter_free(lock)
    /\ \E k \in {x \in Keys : read_refs[x] > 0} :
       \E r \in {SMO_release_read_reference(track_list, lock, k)} :
           /\ Returned("release_read_reference", <<k>>, FALSE, None, r)
           /\ read_refs' = [read_refs EXCEPT ![k] = @ - 1]
           /\ UNCHANGED <<write_handles, pop_handles, keys_returned, committed, thread, object_dict, global_lock>>

\* delete_entry on any key, forced or not.
DeleteEntry ==
    /\ writer_enter_free(lock)
    /\ \E k \in Keys, force_delete \in BOOLEAN :
       \E r \in {SMO_delete_entry_config(track_list, lock, k, force_delete)} :
           /\ Returned("delete_entry_config", <<k>>, force_delete, None, r)
           /\ committed' = IF r.raised = "" /\ r.status = SMOS_SUCCESS
                           THEN DictDel(committed, k) ELSE committed
           /\ UNCHANGED <<write_handles, pop_handles, read_refs, keys_returned, thread, object_dict, global_lock>>

\* pop_from_object: a successful pop hands the descriptors to the caller.
PopEntry ==
    /\ writer_enter_free(lock)
    /\ \E force_pop \in BOOLEAN :
       \E r \in {SMO_pop_entry_config(track_list, lock, force_pop)} :
           /\ Returned("pop_entry_config", None, force_pop, None, r)
           /\ pop_handles' = IF r.raised = "" /\ r.status = SMOS_SUCCESS
                             THEN pop_handles \cup {r.entry_config_list}
                             ELSE pop_handles
           /\ committed' = IF r.raised = "" /\ r.status = SMOS_SUCCESS
                           THEN DictDel(committed, r.key[1]) ELSE committed
           /\ UNCHANGED <<write_handles, read_refs, keys_returned, thread, object_dict, global_lock>>

\* free_handle: free_block_mapping with a popped handle, which is then gone.
FreeHandle ==
    \E h \in pop_handles :
    \E r \in {SMO_free_block_mapping(track_list, lock, h)} :
        /\ Returned("free_block_mapping", None, FALSE, h, r)
        /\ pop_handles' = pop_handles \ {h}
        /\ UNCHANGED <<write_handles, read_refs, keys_returned, committed, thread, object_dict, global_lock>>

Next ==
    \/ Allocate
    \/ AppendEntry
    \/ ReadEntry
    \/ ReleaseEntry
    \/ DeleteEntry
    \/ PopEntry
    \/ FreeHandle

Spec == Init /\ [][Next]_vars

(* ------------------------------------------------------------------ *)
(* SpecAny: one call at a time, clients call as they like             *)
(* ------------------------------------------------------------------ *)
\* release_read_reference by a client that holds no read reference to the
\* key.  The calls that entered the reader side and never left it (an
\* exception inside the section) are counted by reader_count; they are
\* capped at MaxRefs + 1.
ReleaseUnheld ==
    /\ lock.reader_count <= MaxRefs
    /\ reader_enter_free(lock)
    /\ \E k \in {x \in Keys : read_refs[x] = 0} :
       \E r \in {SMO_release_read_reference(track_list, lock, k)} :
           /\ Returned("release_read_reference", <<k>>, FALSE, None, r)
           /\ UNCHANGED <<write_handles, pop_handles, read_refs, keys_returned,
                          committed, thread, object_dict, global_lock>>

\* append, delete or pop while the readwrite mutex is held by a call that
\* never left: writer_enter acquires writer_lock and then waits for ever.
WriterBlocked ==
    /\ ~lock.writer_lock
    /\ lock.readwrite_lock
    /\ lock' = [lock EXCEPT !.writer_lock = TRUE]
    /\ last' = [last EXCEPT !.op = "blocked", !.pre = Snapshot]
    /\ UNCHANGED <<track_list, write_handles, pop_handles, read_refs,
                   keys_returned, committed, thread, object_dict, global_lock>>

NextAny ==
    \/ Next
    \/ ReleaseUnheld
    \/ WriterBlocked

SpecAny == Init /\ [][NextAny]_vars

(* ------------------------------------------------------------------ *)
(* SpecLatest: Spec and read_latest_from_object                       *)
(* ------------------------------------------------------------------ *)
\* read_latest_from_object: read_latest_entry_config; a success leaves the
\* caller a read reference to the key it returns.
ReadLatestEntry ==
    /\ OutstandingRefs < MaxRefs
    /\ lock.reader_count <= MaxRefs
    /\ reader_enter_free(lock)
    /\ \E r \in {SMO_read_latest_entry_config(track_list, lock)} :
           /\ Returned("read_latest_entry_config", None, FALSE, None, r)
           /\ read_refs' = IF r.raised = "" /\ r.status = SMOS_SUCCESS
                           THEN [read_refs EXCEPT ![r.key[1]] = @ + 1]
                           ELSE read_refs
           /\ UNCHANGED <<write_handles, pop_handles, keys_returned, committed, thread, object_dict, global_lock>>

NextLatest ==
    \/ Next
    \/ ReadLatestEntry

SpecLatest == Init /\ [][NextLatest]_vars

(* ------------------------------------------------------------------ *)
(* SpecBatch: Spec and batch_read_from_object                         *)
(* ------------------------------------------------------------------ *)
\* the batches of keys: idx_batch of 1 to MaxBatch keys, in any order, with
\* or without repetition
Batches == UNION {[1..n -> Keys] : n \in 1..MaxBatch}

\* the number of times key k is among the first n keys of idx_batch
RECURSIVE Occurrences(_, _, _)
Occurrences(idx_batch, n, k) ==
    IF n = 0 THEN 0
    ELSE Occurrences(idx_batch, n - 1, k) + (IF idx_batch[n] = k THEN 1 ELSE 0)

\* the keys of idx_batch before the first one that is not in live: all of
\* them when every key is in live
RECURSIVE ReadPrefix(_, _, _)
ReadPrefix(idx_batch, live, n) ==
    IF n < Len(idx_batch) /\ idx_batch[n + 1] \in live
    THEN ReadPrefix(idx_batch, live, n + 1)
    ELSE n

\* pending_readers of key k in the first track of tl, 0 when k is not live
ReadersOf(tl, k) ==
    IF k \in DOMAIN tl[1].entry_config_list
    THEN tl[1].entry_config_list[k].pending_readers
    ELSE 0

\* batch_read_from_object on any batch of keys.  Every read that succeeded
\* took a read reference, which the client holds or, after SMOS_FAIL, knows
\* it may release.
BatchRead ==
    /\ OutstandingRefs < MaxRefs
    /\ lock.reader_count <= MaxRefs
    /\ reader_enter_free(lock)
    /\ \E idx_batch \in Batches :
       \E r \in {Store_batch_read_entry_config(track_list, lock, idx_batch)} :
           /\ Returned("batch_read_entry_config", idx_batch, FALSE, None, r)
           /\ read_refs' = [k \in Keys |->
                              read_refs[k] + ReadersOf(r.track_list, k)
                                           - ReadersOf(track_list, k)]
           /\ UNCHANGED <<write_handles, pop_handles, keys_returned, committed, thread, object_dict, global_lock>>

NextBatch ==
    \/ Next
    \/ BatchRead

SpecBatch == Init /\ [][NextBatch]_vars

(* ------------------------------------------------------------------ *)
(* SpecRelease: handles are kept by the clients after free_handle     *)
(* ------------------------------------------------------------------ *)
\* free_handle: free_block_mapping with a popped handle.  Here thread is
\* the set of the handles that were released and that a client still has.
FreeRecorded ==
    \E h \in pop_handles :
    \E r \in {SMO_free_block_mapping(track_list, lock, h)} :
        /\ Returned("free_block_mapping", None, FALSE, h, r)
        /\ pop_handles' = pop_handles \ {h}
        /\ thread' = IF r.raised = "" THEN thread \cup {h} ELSE thread
        /\ UNCHANGED <<write_handles, read_refs, keys_returned, committed, object_dict, global_lock>>

\* free_handle a second time: free_block_mapping with a handle that was
\* released, while no client holds an equal handle of a later pop.
FreeAgain ==
    \E h \in thread \ pop_handles :
    \E r \in {SMO_free_block_mapping(track_list, lock, h)} :
        /\ Returned("free_block_mapping", None, FALSE, h, r)
        /\ UNCHANGED <<write_handles, pop_handles, read_refs, keys_returned, committed, thread, object_dict, global_lock>>

NextRelease ==
    \/ Allocate
    \/ AppendEntry
    \/ DeleteEntry
    \/ PopEntry
    \/ FreeRecorded
    \/ FreeAgain

InitRelease ==
    /\ InitObject
    /\ thread = {}

SpecRelease == InitRelease /\ [][NextRelease]_vars

(* ------------------------------------------------------------------ *)
(* SpecAll: Spec with read_latest_from_object and batch_read          *)
(* ------------------------------------------------------------------ *)
NextAll == Next \/ ReadLatestEntry \/ BatchRead

SpecAll == Init /\ [][NextAll]_vars

(* ------------------------------------------------------------------ *)
(* SpecConc: the server runs every call in a thread of its own        *)
(* ------------------------------------------------------------------ *)
\* The clients, each served by one thread of the manager process.
Threads == {"t1", "t2"}

\* A thread between calls.  ref is the read reference its client holds,
\* reads the number of reads the client has made.
IdleThread(ref, reads) ==
    [pc |-> "idle", op |-> "", idx |-> None, force |-> FALSE,
     entry_config_list |-> <<>>, i |-> 0, loaded |-> 0,
     status_list |-> <<>>, ref |-> ref, reads |-> reads, raised |-> ""]

\* A thread whose call ended in an exception: its client stops.
RaisedThread(th, exception) ==
    [IdleThread(th.ref, th.reads) EXCEPT
        !.pc = "raised", !.op = th.op, !.raised = exception]

\* A thread that starts a call.  A step of SpecConc is one access to what
\* the threads share, so a call starts with its first such access.
StartThread(th, op, pc, idx, force, entry_config_list) ==
    [IdleThread(th.ref, th.reads) EXCEPT
        !.pc = pc, !.op = op, !.idx = idx, !.force = force, !.i = 1,
        !.entry_config_list = entry_config_list]

InitConc ==
    /\ InitObject
    /\ thread = [t \in Threads |-> IdleThread(None, 0)]

\* the ghost variables of Spec that the threads leave alone
ConcFrame ==
    UNCHANGED <<read_refs, keys_returned, committed, last, object_dict, global_lock>>

\* "len(set(status_list)) == 1"
Aligned(status_list) == Cardinality(Range(status_list)) = 1

\* ---- allocate_block and free_block_mapping: no lock -----------------
\* One turn of allocate_block's loop over the tracks, by the thread as th;
\* after the last track the statuses are compared and the call returns.
AllocateTurn(t, th) ==
    \E r \in {DT_allocate_block(track_list[th.i], th.entry_config_list[th.i])} :
       LET status_list == Append(th.status_list, r.status)
           ecl == [th.entry_config_list EXCEPT ![th.i] = r.entry_config]
       IN /\ track_list' = [track_list EXCEPT ![th.i] = r.track]
          /\ IF th.i < TrackCount
             THEN /\ thread' = [thread EXCEPT ![t] =
                                  [th EXCEPT !.i = @ + 1, !.status_list = status_list,
                                             !.entry_config_list = ecl]]
                  /\ UNCHANGED write_handles
             ELSE IF ~Aligned(status_list)
             THEN /\ thread' = [thread EXCEPT ![t] = RaisedThread(th, "SMOSTrackUnaligned")]
                  /\ UNCHANGED write_handles
             ELSE /\ thread' = [thread EXCEPT ![t] = IdleThread(th.ref, th.reads)]
                  /\ write_handles' = IF status_list[1] = SMOS_SUCCESS
                                      THEN write_handles \cup {ecl}
                                      ELSE write_handles

\* create_entry: allocate_block with fresh descriptors, the first track
AllocateStart(t) ==
    /\ thread[t].pc = "idle"
    /\ AllocateTurn(t, StartThread(thread[t], "allocate_block", "allocate", None, FALSE,
                                   [i \in TrackIdx |-> EntryConfig]))
    /\ UNCHANGED <<lock, pop_handles>>
    /\ ConcFrame

\* allocate_block, the tracks after the first
AllocateTrack(t) ==
    /\ thread[t].pc = "allocate"
    /\ AllocateTurn(t, thread[t])
    /\ UNCHANGED <<lock, pop_handles>>
    /\ ConcFrame

\* One turn of free_block_mapping's loop over the tracks.
FreeTurn(t, th) ==
    \E r \in {DT_free_block_mapping(track_list[th.i], th.entry_config_list[th.i])} :
        /\ track_list' = [track_list EXCEPT ![th.i] = r.track]
        /\ thread' = [thread EXCEPT ![t] =
                        IF r.raised # "" THEN RaisedThread(th, r.raised)
                        ELSE IF th.i < TrackCount THEN [th EXCEPT !.i = @ + 1]
                        ELSE IdleThread(th.ref, th.reads)]

\* free_handle: free_block_mapping with a popped handle, the first track
FreeStart(t) ==
    /\ thread[t].pc = "idle"
    /\ \E h \in pop_handles :
          /\ FreeTurn(t, StartThread(thread[t], "free_block_mapping", "free", None, FALSE, h))
          /\ pop_handles' = pop_handles \ {h}
    /\ UNCHANGED <<lock, write_handles>>
    /\ ConcFrame

\* free_block_mapping, the tracks after the first
FreeTrack(t) ==
    /\ thread[t].pc = "free"
    /\ FreeTurn(t, thread[t])
    /\ UNCHANGED <<lock, write_handles, pop_handles>>
    /\ ConcFrame

\* ---- append, delete, pop: the writer side ---------------------------
\* Variant: the call does not take the writer side and goes straight to its
\* loop over the tracks.
WriterEnter1_no_lock(t, op, idx, force, entry_config_list) ==
    /\ thread[t].pc = "idle"
    /\ thread' = [thread EXCEPT ![t] =
                    StartThread(thread[t], op, "writer_track", idx, force, entry_config_list)]
    /\ UNCHANGED <<track_list, lock, pop_handles>>
    /\ ConcFrame

\* writer_enter: self.writer_lock.acquire(), the first step of the call
WriterEnter1(t, op, idx, force, entry_config_list) ==
    /\ thread[t].pc = "idle"
    /\ ~lock.writer_lock
    /\ lock' = [lock EXCEPT !.writer_lock = TRUE]
    /\ thread' = [thread EXCEPT ![t] =
                    StartThread(thread[t], op, "writer_enter2", idx, force, entry_config_list)]
    /\ UNCHANGED <<track_list, pop_handles>>
    /\ ConcFrame

\* the appends under way
Appending == {t \in Threads : thread[t].op = "append_entry_config" /\ thread[t].pc # "raised"}

\* commit_entry.  Appends are made while the keys given out and about to be
\* stay below MaxConcKey.
AppendStart(t) ==
    /\ track_list[1].next_key + Cardinality(Appending) < MaxConcKey
    /\ \E h \in write_handles :
          /\ WriterEnter1(t, "append_entry_config", None, FALSE, h)
          /\ write_handles' = write_handles \ {h}

\* delete_entry on any key, forced or not
DeleteStart(t) ==
    /\ \E k \in Keys, force_delete \in BOOLEAN :
          WriterEnter1(t, "delete_entry_config", <<k>>, force_delete, <<>>)
    /\ UNCHANGED write_handles

\* pop_from_object, forced or not
PopStart(t) ==
    /\ \E force_pop \in BOOLEAN :
          WriterEnter1(t, "pop_entry_config", None, force_pop, <<>>)
    /\ UNCHANGED write_handles

\* writer_enter: self.readwrite_lock.acquire()
WriterEnter2(t) ==
    /\ thread[t].pc = "writer_enter2"
    /\ ~lock.readwrite_lock
    /\ lock' = [lock EXCEPT !.readwrite_lock = TRUE]
    /\ thread' = [thread EXCEPT ![t].pc = "writer_track"]
    /\ UNCHANGED <<track_list, write_handles, pop_handles>>
    /\ ConcFrame

\* One turn of a writer's loop over the tracks: the call on track th.i.  An
\* exception of the track ends the call inside the section.
WriterTurn(t, r, result, entry_config) ==
    LET th == thread[t] IN
    /\ track_list' = [track_list EXCEPT ![th.i] = r.track]
    /\ thread' = [thread EXCEPT ![t] =
                    IF r.raised # "" THEN RaisedThread(th, r.raised)
                    ELSE [th EXCEPT
                            !.status_list = Append(@, result),
                            !.entry_config_list =
                                IF th.op = "pop_entry_config" THEN Append(@, entry_config)
                                ELSE @,
                            !.i = @ + 1,
                            !.pc = IF th.i < TrackCount THEN @ ELSE "writer_leave"]]
    /\ UNCHANGED <<lock, write_handles, pop_handles>>
    /\ ConcFrame

\* status_list holds the entry_idx_list of the append
AppendTrack(t) ==
    LET th == thread[t] IN
    /\ th.pc = "writer_track"
    /\ th.op = "append_entry_config"
    /\ \E r \in {DT_append_entry_config(track_list[th.i], th.entry_config_list[th.i])} :
          WriterTurn(t, r, r.key, None)

DeleteTrack(t) ==
    LET th == thread[t] IN
    /\ th.pc = "writer_track"
    /\ th.op = "delete_entry_config"
    /\ \E r \in {DT_delete_entry_config(track_list[th.i], th.idx[1], th.force)} :
          WriterTurn(t, r, r.status, None)

PopTrack(t) ==
    LET th == thread[t] IN
    /\ th.pc = "writer_track"
    /\ th.op = "pop_entry_config"
    /\ \E r \in {DT_pop_entry_config(track_list[th.i], th.force)} :
          WriterTurn(t, r, r.status, r.entry_config)

\* writer_leave, the comparison of what the tracks returned, the return
WriterLeave(t) ==
    LET th == thread[t] IN
    /\ th.pc = "writer_leave"
    /\ lock' = [lock EXCEPT !.readwrite_lock = FALSE, !.writer_lock = FALSE]
    /\ thread' = [thread EXCEPT ![t] =
                    IF ~Aligned(th.status_list)
                    THEN RaisedThread(th, "SMOSTrackUnaligned")
                    ELSE IdleThread(th.ref, th.reads)]
    /\ pop_handles' = IF /\ th.op = "pop_entry_config"
                         /\ Aligned(th.status_list)
                         /\ th.status_list[1] = SMOS_SUCCESS
                      THEN pop_handles \cup {th.entry_config_list}
                      ELSE pop_handles
    /\ UNCHANGED <<track_list, write_handles>>
    /\ ConcFrame

\* ---- read and release: the reader side ------------------------------
\* reader_enter, the first step of the call.  It holds writer_lock and
\* reader_counter_lock from start to end, so it gets through when both are
\* free and, for the first reader, readwrite_lock is free.
ReaderEnter(t, op, idx, ref, reads) ==
    /\ thread[t].pc = "idle"
    /\ reader_enter_free(lock)
    /\ lock' = reader_enter(lock)
    /\ thread' = [thread EXCEPT ![t] =
                    StartThread([thread[t] EXCEPT !.ref = ref, !.reads = reads],
                                op, "load", idx, FALSE, <<>>)]
    /\ UNCHANGED <<track_list, write_handles, pop_handles>>
    /\ ConcFrame

\* open_entry on any key.  A client opens an entry when it holds no read
\* reference; it makes at most MaxRefs reads.
ReadStart(t) ==
    /\ thread[t].ref = None
    /\ thread[t].reads < MaxRefs
    /\ \E k \in Keys :
          ReaderEnter(t, "read_entry_config", <<k>>, None, thread[t].reads + 1)

\* release_entry: a client releases the read reference it holds, once.
ReleaseStart(t) ==
    /\ thread[t].ref # None
    /\ ReaderEnter(t, "release_read_reference", thread[t].ref, None, thread[t].reads)

\* The turn of a reader's loop is over: the next track, or reader_leave.
ReaderNext(th, status, entry_config) ==
    [th EXCEPT !.status_list = Append(@, status),
               !.entry_config_list =
                   IF th.op = "read_entry_config" THEN Append(@, entry_config) ELSE @,
               !.i = @ + 1,
               !.loaded = 0,
               !.pc = IF th.i < TrackCount THEN "load" ELSE "reader_leave"]

\* "pending_readers += 1" and "pending_readers -= 1" read the field ...
\* (KeyError: the track returns SMOS_FAIL)
LoadPendingReaders(t) ==
    LET th == thread[t]
        tr == track_list[th.i]
    IN /\ th.pc = "load"
       /\ thread' = [thread EXCEPT ![t] =
                       IF th.idx[1] \in DOMAIN tr.entry_config_list
                       THEN [th EXCEPT !.pc = "store",
                                       !.loaded = tr.entry_config_list[th.idx[1]].pending_readers]
                       ELSE ReaderNext(th, SMOS_FAIL, None)]
       /\ UNCHANGED <<track_list, lock, write_handles, pop_handles>>
       /\ ConcFrame

\* ... and write it back: read_entry_config stores loaded + 1 and returns
\* the descriptor
ReadStore(t) ==
    LET th == thread[t]
        ec == [track_list[th.i].entry_config_list[th.idx[1]] EXCEPT
                 !.pending_readers = th.loaded + 1]
    IN /\ th.pc = "store"
       /\ th.op = "read_entry_config"
       /\ track_list' = [track_list EXCEPT ![th.i].entry_config_list[th.idx[1]] = ec]
       /\ thread' = [thread EXCEPT ![t] = ReaderNext(th, SMOS_SUCCESS, ec)]
       /\ UNCHANGED <<lock, write_handles, pop_handles>>
       /\ ConcFrame

\* release_read_reference stores loaded - 1 ...
ReleaseStore(t) ==
    LET th == thread[t] IN
    /\ th.pc = "store"
    /\ th.op = "release_read_reference"
    /\ track_list' = [track_list EXCEPT
                        ![th.i].entry_config_list[th.idx[1]].pending_readers = th.loaded - 1]
    /\ thread' = [thread EXCEPT ![t].pc = "check", ![t].loaded = 0]
    /\ UNCHANGED <<lock, write_handles, pop_handles>>
    /\ ConcFrame

\* ... and then reads the field again: "if ... pending_readers < 0: raise"
ReleaseCheck(t) ==
    LET th == thread[t] IN
    /\ th.pc = "check"
    /\ thread' = [thread EXCEPT ![t] =
                    IF track_list[th.i].entry_config_list[th.idx[1]].pending_readers < 0
                    THEN RaisedThread(th, "SMOSReadRefDoubleRelease")
                    ELSE ReaderNext(th, SMOS_SUCCESS, None)]
    /\ UNCHANGED <<track_list, lock, write_handles, pop_handles>>
    /\ ConcFrame

\* reader_leave (under reader_counter_lock from start to end), then the
\* comparison of what the tracks returned, and the return.  A successful
\* read leaves the client a read reference.
ReaderLeave(t) ==
    LET th == thread[t] IN
    /\ th.pc = "reader_leave"
    /\ ~lock.reader_counter_lock
    /\ lock' = reader_leave(lock)
    /\ thread' = [thread EXCEPT ![t] =
                    IF ~Aligned(th.status_list)
                    THEN RaisedThread(th, "SMOSTrackUnaligned")
                    ELSE IF th.op = "read_entry_config" /\ th.status_list[1] = SMOS_SUCCESS
                    THEN IdleThread(th.idx, th.reads)
                    ELSE IdleThread(None, th.reads)]
    /\ UNCHANGED <<track_list, write_handles, pop_handles>>
    /\ ConcFrame

\* the steps of create, commit, open and release
ReaderSteps(t) ==
    \/ AllocateStart(t) \/ AllocateTrack(t)
    \/ AppendStart(t) \/ WriterEnter2(t) \/ AppendTrack(t) \/ WriterLeave(t)
    \/ ReadStart(t) \/ ReleaseStart(t)
    \/ LoadPendingReaders(t) \/ ReadStore(t) \/ ReleaseStore(t) \/ ReleaseCheck(t)
    \/ ReaderLeave(t)

\* the steps of delete, pop and free
RemoverSteps(t) ==
    \/ DeleteStart(t) \/ DeleteTrack(t)
    \/ PopStart(t) \/ PopTrack(t)
    \/ FreeStart(t) \/ FreeTrack(t)

NextReaders == \E t \in Threads : ReaderSteps(t)

NextConc == \E t \in Threads : ReaderSteps(t) \/ RemoverSteps(t)

\* the steps of pushers (create, commit) and poppers (pop, free)
QueueSteps(t) ==
    \/ AllocateStart(t) \/ AllocateTrack(t)
    \/ AppendStart(t) \/ WriterEnter2(t) \/ AppendTrack(t) \/ WriterLeave(t)
    \/ PopStart(t) \/ PopTrack(t)
    \/ FreeStart(t) \/ FreeTrack(t)

NextQueue == \E t \in Threads : QueueSteps(t)

\* clients that use the object as a queue
SpecQueue == InitConc /\ [][NextQueue]_vars

\* delete_entry with force_delete=False
DeleteStartUnforced(t) ==
    /\ \E k \in Keys : WriterEnter1(t, "delete_entry_config", <<k>>, FALSE, <<>>)
    /\ UNCHANGED write_handles

\* pop_from_object with force_pop=False
PopStartUnforced(t) ==
    /\ WriterEnter1(t, "pop_entry_config", None, FALSE, <<>>)
    /\ UNCHANGED write_handles

NextUnforced ==
    \E t \in Threads :
        \/ ReaderSteps(t)
        \/ DeleteStartUnforced(t) \/ DeleteTrack(t)
        \/ PopStartUnforced(t) \/ PopTrack(t)
        \/ FreeStart(t) \/ FreeTrack(t)

\* clients that make every call and force no delete and no pop
SpecUnforced == InitConc /\ [][NextUnforced]_vars

\* ---- free_block_mapping, statement by statement ---------------------
\* "if block_idx in self.free_block_list.queue": the test on the track in
\* turn, by the thread as th; the exception ends the call.
FreeTest(t, th) ==
    \E r \in {DT_free_block_mapping(track_list[th.i], th.entry_config_list[th.i])} :
        thread' = [thread EXCEPT ![t] =
                     IF r.raised # "" THEN RaisedThread(th, r.raised)
                     ELSE [th EXCEPT !.pc = "free_put"]]

\* free_handle by clients that share a popped handle: each of them may free
\* it until a free_block_mapping of it has returned.  The first track's test.
FreeTestStart(t) ==
    /\ thread[t].pc = "idle"
    /\ \E h \in pop_handles :
          FreeTest(t, StartThread(thread[t], "free_block_mapping", "free_test",
                                  None, FALSE, h))
    /\ UNCHANGED <<track_list, lock, write_handles, pop_handles>>
    /\ ConcFrame

\* the test on the tracks after the first
FreeTestTrack(t) ==
    /\ thread[t].pc = "free_test"
    /\ FreeTest(t, thread[t])
    /\ UNCHANGED <<track_list, lock, write_handles, pop_handles>>
    /\ ConcFrame

\* the thread waits in "self.free_block_list.put(block_idx)": the queue was
\* made with maxsize=max_capacity and put waits while it is full
PutBlocked(t) ==
    /\ thread[t].pc = "free_put"
    /\ Len(track_list[thread[t].i].free_block_list)
          >= track_list[thread[t].i].max_capacity

\* "self.free_block_list.put(block_idx)", then the next track or the return
FreePut(t) ==
    LET th == thread[t] IN
    /\ th.pc = "free_put"
    /\ ~PutBlocked(t)
    /\ track_list' = [track_list EXCEPT ![th.i].free_block_list =
                         Append(@, th.entry_config_list[th.i].mapped_block_idx)]
    /\ IF th.i < TrackCount
       THEN /\ thread' = [thread EXCEPT ![t] =
                            [th EXCEPT !.pc = "free_test", !.i = @ + 1]]
            /\ UNCHANGED pop_handles
       ELSE /\ thread' = [thread EXCEPT ![t] = IdleThread(th.ref, th.reads)]
            /\ pop_handles' = pop_handles \ {th.entry_config_list}
    /\ UNCHANGED <<lock, write_handles>>
    /\ ConcFrame

NextPool ==
    \E t \in Threads :
        \/ AllocateStart(t) \/ AllocateTrack(t)
        \/ AppendStart(t) \/ WriterEnter2(t) \/ AppendTrack(t) \/ WriterLeave(t)
        \/ DeleteStart(t) \/ DeleteTrack(t)
        \/ PopStart(t) \/ PopTrack(t)
        \/ FreeTestStart(t) \/ FreeTestTrack(t) \/ FreePut(t)

\* clients that create, commit, delete, pop and free, where a popped handle
\* is shared
SpecPool == InitConc /\ [][NextPool]_vars

\* clients that create, commit, open and release entries
SpecReaders == InitConc /\ [][NextReaders]_vars

\* clients that make every call
SpecConc == InitConc /\ [][NextConc]_vars

(* ------------------------------------------------------------------ *)
(* SpecLock: threads on one RWLock, one mutex operation at a time      *)
(* ------------------------------------------------------------------ *)
\* The threads that call the lock.
LockThreads == {"t1", "t2", "t3"}

\* What a step of a lock method does: ok is FALSE while the mutex it
\* acquires is held; L is the lock after the step, pc the next statement.
LockStepResult(ok, L, pc) == [ok |-> ok, lock |-> L, pc |-> pc]

\* Variant: reader_enter that never acquires readwrite_lock.
reader_enter_step_not_inside(L, pc) ==
    CASE pc = "out" -> LockStepResult(TRUE, L, "re1")
      [] pc = "re1" -> LockStepResult(~L.writer_lock, [L EXCEPT !.writer_lock = TRUE], "re2")
      [] pc = "re2" -> LockStepResult(~L.reader_counter_lock,
                                      [L EXCEPT !.reader_counter_lock = TRUE], "re3")
      [] pc = "re3" -> LockStepResult(TRUE, [L EXCEPT !.reader_count = @ + 1], "re4")
      [] pc = "re4" -> LockStepResult(TRUE, [L EXCEPT !.reader_counter_lock = FALSE], "re5")
      [] pc = "re5" -> LockStepResult(TRUE, [L EXCEPT !.writer_lock = FALSE], "in_r")

\* Variant: reader_enter that does not pass through writer_lock.
reader_enter_step_no_gate(L, pc) ==
    CASE pc = "out" -> LockStepResult(TRUE, L, "re1")
      [] pc = "re1" -> LockStepResult(TRUE, L, "re2")
      [] pc = "re2" -> LockStepResult(~L.reader_counter_lock,
                                      [L EXCEPT !.reader_counter_lock = TRUE], "re3")
      [] pc = "re3" -> LockStepResult(L.reader_count = 0 => ~L.readwrite_lock,
                                      reader_enter(L), "re4")
      [] pc = "re4" -> LockStepResult(TRUE, [L EXCEPT !.reader_counter_lock = FALSE], "re5")
      [] pc = "re5" -> LockStepResult(TRUE, L, "in_r")

\* reader_enter, statement by statement.  "out": the call begins.
\* "re1": writer_lock.acquire().  "re2": reader_counter_lock.acquire().
\* "re3": if reader_count == 0: readwrite_lock.acquire(); reader_count += 1.
\* "re4": reader_counter_lock.release().  "re5": writer_lock.release(), and
\* the thread is inside as a reader.
reader_enter_step(L, pc) ==
    CASE pc = "out" -> LockStepResult(TRUE, L, "re1")
      [] pc = "re1" -> LockStepResult(~L.writer_lock, [L EXCEPT !.writer_lock = TRUE], "re2")
      [] pc = "re2" -> LockStepResult(~L.reader_counter_lock,
                                      [L EXCEPT !.reader_counter_lock = TRUE], "re3")
      [] pc = "re3" -> LockStepResult(L.reader_count = 0 => ~L.readwrite_lock,
                                      reader_enter(L), "re4")
      [] pc = "re4" -> LockStepResult(TRUE, [L EXCEPT !.reader_counter_lock = FALSE], "re5")
      [] pc = "re5" -> LockStepResult(TRUE, [L EXCEPT !.writer_lock = FALSE], "in_r")

\* reader_leave.  "in_r": reader_counter_lock.acquire().  "rl2":
\* reader_count -= 1; if reader_count == 0: readwrite_lock.release().
\* "rl3": reader_counter_lock.release().
reader_leave_step(L, pc) ==
    CASE pc = "in_r" -> LockStepResult(~L.reader_counter_lock,
                                       [L EXCEPT !.reader_counter_lock = TRUE], "rl2")
      [] pc = "rl2" -> LockStepResult(TRUE, reader_leave(L), "rl3")
      [] pc = "rl3" -> LockStepResult(TRUE, [L EXCEPT !.reader_counter_lock = FALSE], "out")

\* Variant: writer_enter that acquires readwrite_lock first and writer_lock
\* second.
writer_enter_step_inside_first(L, pc) ==
    CASE pc = "out" -> LockStepResult(TRUE, L, "we1")
      [] pc = "we1" -> LockStepResult(~L.readwrite_lock,
                                      [L EXCEPT !.readwrite_lock = TRUE], "we2")
      [] pc = "we2" -> LockStepResult(~L.writer_lock, [L EXCEPT !.writer_lock = TRUE], "in_w")

\* writer_enter.  "out": the call begins.  "we1": writer_lock.acquire().
\* "we2": readwrite_lock.acquire(), and the thread is inside as a writer.
writer_enter_step(L, pc) ==
    CASE pc = "out" -> LockStepResult(TRUE, L, "we1")
      [] pc = "we1" -> LockStepResult(~L.writer_lock, [L EXCEPT !.writer_lock = TRUE], "we2")
      [] pc = "we2" -> LockStepResult(~L.readwrite_lock,
                                      [L EXCEPT !.readwrite_lock = TRUE], "in_w")

\* writer_leave.  "in_w": readwrite_lock.release().  "wl2":
\* writer_lock.release().
writer_leave_step(L, pc) ==
    CASE pc = "in_w" -> LockStepResult(TRUE, [L EXCEPT !.readwrite_lock = FALSE], "wl2")
      [] pc = "wl2" -> LockStepResult(TRUE, [L EXCEPT !.writer_lock = FALSE], "out")

\* A thread outside the lock.  ahead: the writers that were waiting in
\* writer_enter, writer_lock in hand, when the thread called reader_enter and
\* that have not left since; gated: there was such a writer.
InitLock ==
    /\ InitObject
    /\ thread = [t \in LockThreads |-> [pc |-> "out", ahead |-> {}, gated |-> FALSE]]

\* the writers that hold writer_lock and wait for readwrite_lock
WaitingWriters == {w \in LockThreads : thread[w].pc = "we2"}

\* what the threads on the lock leave alone
LockFrame ==
    /\ UNCHANGED <<track_list, write_handles, pop_handles>>
    /\ ConcFrame

ReaderEnterStep(t) ==
    /\ thread[t].pc \in {"out", "re1", "re2", "re3", "re4", "re5"}
    /\ \E r \in {reader_enter_step(lock, thread[t].pc)} :
          /\ r.ok
          /\ lock' = r.lock
          /\ thread' = [thread EXCEPT
                          ![t] = IF thread[t].pc = "out"
                                 THEN [pc |-> r.pc, ahead |-> WaitingWriters,
                                       gated |-> WaitingWriters # {}]
                                 ELSE [@ EXCEPT !.pc = r.pc]]
    /\ LockFrame

ReaderLeaveStep(t) ==
    /\ thread[t].pc \in {"in_r", "rl2", "rl3"}
    /\ \E r \in {reader_leave_step(lock, thread[t].pc)} :
          /\ r.ok
          /\ lock' = r.lock
          /\ thread' = [thread EXCEPT
                          ![t] = IF r.pc = "out"
                                 THEN [pc |-> "out", ahead |-> {}, gated |-> FALSE]
                                 ELSE [@ EXCEPT !.pc = r.pc]]
    /\ LockFrame

WriterEnterStep(t) ==
    /\ thread[t].pc \in {"out", "we1", "we2"}
    /\ \E r \in {writer_enter_step(lock, thread[t].pc)} :
          /\ r.ok
          /\ lock' = r.lock
          /\ thread' = [thread EXCEPT ![t].pc = r.pc]
    /\ LockFrame

\* when the writer has left, no thread has it ahead any more
WriterLeaveStep(t) ==
    /\ thread[t].pc \in {"in_w", "wl2"}
    /\ \E r \in {writer_leave_step(lock, thread[t].pc)} :
          /\ r.ok
          /\ lock' = r.lock
          /\ thread' = [u \in LockThreads |->
                          IF u = t THEN [thread[u] EXCEPT !.pc = r.pc]
                          ELSE IF r.pc = "out"
                          THEN [thread[u] EXCEPT !.ahead = @ \ {t}]
                          ELSE thread[u]]
    /\ LockFrame

NextLock ==
    \E t \in LockThreads :
        \/ ReaderEnterStep(t)
        \/ ReaderLeaveStep(t)
        \/ WriterEnterStep(t)
        \/ WriterLeaveStep(t)

SpecLock == InitLock /\ [][NextLock]_vars

\* Fair scheduling: a thread that has called a method of the lock goes on
\* with it; a thread that waits for a mutex that is free again and again
\* gets it in the end.  No thread has to call the lock, and a thread that is
\* inside leaves.
FairLock ==
    \A t \in LockThreads :
        /\ SF_vars(ReaderEnterStep(t) /\ thread[t].pc # "out")
        /\ SF_vars(WriterEnterStep(t) /\ thread[t].pc # "out")
        /\ SF_vars(ReaderLeaveStep(t))
        /\ SF_vars(WriterLeaveStep(t))

FairSpecLock == SpecLock /\ FairLock

(* ------------------------------------------------------------------ *)
(* SpecLevels: the store lock around the object's lock                *)
(* ------------------------------------------------------------------ *)
\* The calls by the locks they take.  "create": the writer side of the
\* store lock (create, remove).  "allocate_block": the reader side of the
\* store lock and no lock of the object (allocate_block, free_block_mapping,
\* get_entry_offset).  "append_entry_config": the reader side of the store
\* lock, then the writer side of the object's lock (append, delete, pop).
\* "profile": the reader side of the store lock, then, in get_entry_count,
\* the reader side of the object's lock (profile, read, read_latest, batch
\* read, release).  No call raises here.
LevelOps == {"create", "allocate_block", "append_entry_config", "profile"}

\* the side of the object's lock that the call takes
ObjectSide(op) ==
    IF op = "append_entry_config" THEN "w"
    ELSE IF op = "profile" THEN "r"
    ELSE "none"

\* enter and leave of one RWLock on the side given
LevelEnter(side, L, pc) ==
    IF side = "w" THEN writer_enter_step(L, pc) ELSE reader_enter_step(L, pc)

LevelLeave(side, L, pc) ==
    IF side = "w" THEN writer_leave_step(L, pc) ELSE reader_leave_step(L, pc)

\* One mutex operation of a call in progress.  phase: "g_enter" in the enter
\* of global_lock, "o_enter" in the enter of the object's lock, "o_leave" from
\* inside the object's lock to the end of its leave, "g_leave" likewise for
\* global_lock; then the call returns ("idle").
Levels_step(gl, ol, th) ==
    LET gside == IF th.op = "create" THEN "w" ELSE "r"
        oside == ObjectSide(th.op)
        Res(ok, g, o, phase, pc) ==
            [ok |-> ok, global_lock |-> g, lock |-> o,
             thread |-> [th EXCEPT !.phase = phase, !.pc = pc]]
    IN IF th.phase = "g_enter"
       THEN LET r == LevelEnter(gside, gl, th.pc)
            IN IF r.pc \in {"in_r", "in_w"}
               THEN IF oside = "none"
                    THEN Res(r.ok, r.lock, ol, "g_leave", r.pc)
                    ELSE Res(r.ok, r.lock, ol, "o_enter", "out")
               ELSE Res(r.ok, r.lock, ol, "g_enter", r.pc)
       ELSE IF th.phase = "o_enter"
       THEN LET r == LevelEnter(oside, ol, th.pc)
            IN Res(r.ok, gl, r.lock,
                   IF r.pc \in {"in_r", "in_w"} THEN "o_leave" ELSE "o_enter", r.pc)
       ELSE IF th.phase = "o_leave"
       THEN LET r == LevelLeave(oside, ol, th.pc)
            IN IF r.pc = "out"
               THEN Res(r.ok, gl, r.lock, "g_leave", "in_r")
               ELSE Res(r.ok, gl, r.lock, "o_leave", r.pc)
       ELSE LET r == LevelLeave(gside, gl, th.pc)
            IN Res(r.ok, r.lock, ol, IF r.pc = "out" THEN "idle" ELSE "g_leave", r.pc)

InitLevels ==
    /\ InitObject
    /\ thread = [t \in LockThreads |-> [op |-> "", phase |-> "idle", pc |-> "out"]]

\* a client calls
LevelCall(t) ==
    /\ thread[t].phase = "idle"
    /\ \E op \in LevelOps :
          thread' = [thread EXCEPT ![t] = [op |-> op, phase |-> "g_enter", pc |-> "out"]]
    /\ UNCHANGED <<track_list, lock, write_handles, pop_handles, read_refs,
                   keys_returned, committed, last, object_dict, global_lock>>

\* the call goes on by one mutex operation
LevelStep(t) ==
    /\ thread[t].phase # "idle"
    /\ \E r \in {Levels_step(global_lock, lock, thread[t])} :
          /\ r.ok
          /\ global_lock' = r.global_lock
          /\ lock' = r.lock
          /\ thread' = [thread EXCEPT ![t] = r.thread]
    /\ UNCHANGED <<track_list, write_handles, pop_handles, read_refs,
                   keys_returned, committed, last, object_dict>>

NextLevels == \E t \in LockThreads : LevelCall(t) \/ LevelStep(t)

SpecLevels == InitLevels /\ [][NextLevels]_vars

\* Fair scheduling, as in FairLock: a call in progress goes on, and a thread
\* that waits for a mutex that is free again and again gets it.  No thread
\* has to call.
FairSpecLevels == SpecLevels /\ \A t \in LockThreads : SF_vars(LevelStep(t))

(* ------------------------------------------------------------------ *)
(* SpecStore: threads on the SharedMemoryObjectStore                  *)
(* ------------------------------------------------------------------ *)
\* object_dict maps a name in the catalog to the number of objects that
\* "self.object_dict[name] = SharedMemoryObject(...)" has stored under it
\* since the name was last free: 1 is the object, 2 means that an object was
\* replaced by another.

\* What a step of a store method does: ok is FALSE while the mutex it
\* acquires is held; raised is the exception that ends the call.
StoreStepResult(ok, dict, L, pc, raised) ==
    [ok |-> ok, object_dict |-> dict, lock |-> L, pc |-> pc, raised |-> raised]

\* Variant: create without "if name in self.object_dict: raise".
Store_create_step_unchecked(dict, L, pc, name) ==
    IF pc \in {"out", "we1", "we2"}
    THEN LET r == writer_enter_step(L, pc)
         IN StoreStepResult(r.ok, dict, r.lock, IF r.pc = "in_w" THEN "check" ELSE r.pc, "")
    ELSE IF pc = "check"
    THEN StoreStepResult(TRUE, dict, L, "body", "")
    ELSE IF pc = "body"
    THEN StoreStepResult(TRUE,
             [n \in DOMAIN dict \cup {name} |->
                 IF n = name THEN (IF n \in DOMAIN dict THEN dict[n] + 1 ELSE 1) ELSE dict[n]],
             L, "in_w", "")
    ELSE LET r == writer_leave_step(L, pc)
         IN StoreStepResult(TRUE, dict, r.lock, r.pc, "")

\* create, statement by statement: writer_enter; "check": the name is
\* looked up, and the call raises if it is there; "body": the object is
\* constructed and stored; writer_leave.
Store_create_step(dict, L, pc, name) ==
    IF pc \in {"out", "we1", "we2"}
    THEN LET r == writer_enter_step(L, pc)
         IN StoreStepResult(r.ok, dict, r.lock, IF r.pc = "in_w" THEN "check" ELSE r.pc, "")
    ELSE IF pc = "check"
    THEN IF name \in DOMAIN dict
         THEN StoreStepResult(TRUE, dict, L, "raised", "SMOSObjectExistError")
         ELSE StoreStepResult(TRUE, dict, L, "body", "")
    ELSE IF pc = "body"
    THEN StoreStepResult(TRUE,
             [n \in DOMAIN dict \cup {name} |->
                 IF n = name THEN (IF n \in DOMAIN dict THEN dict[n] + 1 ELSE 1) ELSE dict[n]],
             L, "in_w", "")
    ELSE LET r == writer_leave_step(L, pc)
         IN StoreStepResult(TRUE, dict, r.lock, r.pc, "")

\* Variant: remove that does not call writer_enter and writer_leave.
Store_remove_step_unlocked(dict, L, pc, name) ==
    IF pc = "out"
    THEN StoreStepResult(TRUE, dict, L, "check", "")
    ELSE IF pc = "check"
    THEN IF name \notin DOMAIN dict
         THEN StoreStepResult(TRUE, dict, L, "raised", "SMOSObjectNotFoundError")
         ELSE StoreStepResult(TRUE, dict, L, "unlink", "")
    ELSE IF pc = "unlink"
    THEN StoreStepResult(TRUE, dict, L, "body", "")
    ELSE StoreStepResult(TRUE, [n \in DOMAIN dict \ {name} |-> dict[n]], L, "out", "")

\* remove: writer_enter; "check": the name is looked up, and the call raises
\* if it is not there; "unlink": shm_object.stop() is unlinking the
\* segments; "body": del self.object_dict[name]; writer_leave.
Store_remove_step(dict, L, pc, name) ==
    IF pc \in {"out", "we1", "we2"}
    THEN LET r == writer_enter_step(L, pc)
         IN StoreStepResult(r.ok, dict, r.lock, IF r.pc = "in_w" THEN "check" ELSE r.pc, "")
    ELSE IF pc = "check"
    THEN IF name \notin DOMAIN dict
         THEN StoreStepResult(TRUE, dict, L, "raised", "SMOSObjectNotFoundError")
         ELSE StoreStepResult(TRUE, dict, L, "unlink", "")
    ELSE IF pc = "unlink"
    THEN StoreStepResult(TRUE, dict, L, "body", "")
    ELSE IF pc = "body"
    THEN StoreStepResult(TRUE, [n \in DOMAIN dict \ {name} |-> dict[n]], L, "in_w", "")
    ELSE LET r == writer_leave_step(L, pc)
         IN StoreStepResult(TRUE, dict, r.lock, r.pc, "")

\* A per-entry operation (allocate_block, append_entry_config, ...,
\* free_block_mapping): reader_enter; "check": the name is looked up, and
\* the call raises if it is not there; "delegate": the call of the object is
\* running on its tracks, and returns or raises (object_raises);
\* reader_leave.
Store_entry_step(dict, L, pc, name, object_raises) ==
    IF pc \in {"out", "re1", "re2", "re3", "re4", "re5"}
    THEN LET r == reader_enter_step(L, pc)
         IN StoreStepResult(r.ok, dict, r.lock, IF r.pc = "in_r" THEN "check" ELSE r.pc, "")
    ELSE IF pc = "check"
    THEN IF name \notin DOMAIN dict
         THEN StoreStepResult(TRUE, dict, L, "raised", "SMOSObjectNotFoundError")
         ELSE StoreStepResult(TRUE, dict, L, "delegate", "")
    ELSE IF pc = "delegate"
    THEN IF object_raises
         THEN StoreStepResult(TRUE, dict, L, "raised", "SMOSTrackUnaligned")
         ELSE StoreStepResult(TRUE, dict, L, "in_r", "")
    ELSE LET r == reader_leave_step(L, pc)
         IN StoreStepResult(r.ok, dict, r.lock, r.pc, "")

\* stop: writer_enter; "unlink": shm_object.stop() for every object of the
\* catalog; writer_leave; "del": del self.global_lock.
Store_stop_step(dict, L, pc) ==
    IF pc \in {"out", "we1", "we2"}
    THEN LET r == writer_enter_step(L, pc)
         IN StoreStepResult(r.ok, dict, r.lock, IF r.pc = "in_w" THEN "unlink" ELSE r.pc, "")
    ELSE IF pc = "unlink"
    THEN StoreStepResult(TRUE, dict, L, "in_w", "")
    ELSE IF pc = "del"
    THEN StoreStepResult(TRUE, dict, L, "stopped", "")
    ELSE LET r == writer_leave_step(L, pc)
         IN StoreStepResult(TRUE, dict, r.lock, IF r.pc = "out" THEN "del" ELSE r.pc, "")

\* the names that clients use
StoreNames == {ObjectName}

\* A thread between calls.
StoreIdle == [pc |-> "out", op |-> "", name |-> "", raised |-> ""]

InitStore ==
    /\ InitObject
    /\ thread = [t \in LockThreads |-> StoreIdle]

\* stop has deleted the attribute global_lock of the store
Stopped == \E t \in LockThreads : thread[t].pc = "stopped"

\* The thread takes the step r of the call op(name).  A call that returns
\* leaves the thread idle; a call that raises ends the thread's client.  The
\* statements that read self.global_lock raise AttributeError once stop has
\* deleted it.
StoreStep(t, op, name, r) ==
    /\ LET th == thread[t] IN
       IF Stopped /\ th.pc \in {"out", "in_w", "in_r"}
       THEN /\ thread' = [thread EXCEPT ![t] =
                            [pc |-> "raised", op |-> op, name |-> name,
                             raised |-> "AttributeError"]]
            /\ UNCHANGED <<object_dict, global_lock>>
       ELSE /\ r.ok
            /\ object_dict' = r.object_dict
            /\ global_lock' = r.lock
            /\ thread' = [thread EXCEPT ![t] =
                            IF r.pc = "out" THEN StoreIdle
                            ELSE [pc |-> r.pc, op |-> op, name |-> name,
                                  raised |-> r.raised]]
    /\ UNCHANGED <<track_list, lock, write_handles, pop_handles, read_refs,
                   keys_returned, committed, last>>

\* The thread is in the call op, or is free to start it.
Calling(t, op) ==
    /\ thread[t].pc \notin {"raised", "stopped"}
    /\ thread[t].op \in {"", op}

\* the name of the call in progress, or any name for a new call
CallNames(t) == IF thread[t].op = "" THEN StoreNames ELSE {thread[t].name}

StoreCreate(t) ==
    /\ Calling(t, "create")
    /\ \E name \in CallNames(t) :
       \E r \in {Store_create_step(object_dict, global_lock, thread[t].pc, name)} :
          StoreStep(t, "create", name, r)

StoreRemove(t) ==
    /\ Calling(t, "remove")
    /\ \E name \in CallNames(t) :
       \E r \in {Store_remove_step(object_dict, global_lock, thread[t].pc, name)} :
          StoreStep(t, "remove", name, r)

StoreEntry(t) ==
    /\ Calling(t, "entry")
    /\ \E name \in CallNames(t), object_raises \in BOOLEAN :
       \E r \in {Store_entry_step(object_dict, global_lock, thread[t].pc, name,
                                  object_raises)} :
          StoreStep(t, "entry", name, r)

StoreStop(t) ==
    /\ Calling(t, "stop")
    /\ \E r \in {Store_stop_step(object_dict, global_lock, thread[t].pc)} :
          StoreStep(t, "stop", "", r)

NextStore ==
    \E t \in LockThreads :
        \/ StoreCreate(t)
        \/ StoreRemove(t)
        \/ StoreEntry(t)
        \/ StoreStop(t)

SpecStore == InitStore /\ [][NextStore]_vars

(* ------------------------------------------------------------------ *)
(* SpecOffset: get_entry_offset on descriptors that a caller supplies *)
(* ------------------------------------------------------------------ *)
\* What get_entry_offset of a track returns.
OffsetResult(raised, status, offset) ==
    [raised |-> raised, status |-> status, offset |-> offset]

\* Variant: the range check lets mapped_block_idx = max_capacity through.
DT_get_entry_offset_inclusive(tr, block_size, entry_config) ==
    IF entry_config.track_name # tr.track_name
    THEN OffsetResult("SMOSTrackMismatch", SMOS_FAIL, None)
    ELSE IF entry_config.mapped_block_idx > tr.max_capacity
    THEN OffsetResult("SMOSMappingError", SMOS_FAIL, None)
    ELSE OffsetResult("", SMOS_SUCCESS, entry_config.mapped_block_idx * block_size)

\* DataTrack.get_entry_offset; block_size is self.block_size.
DT_get_entry_offset(tr, block_size, entry_config) ==
    IF entry_config.track_name # tr.track_name
    THEN OffsetResult("SMOSTrackMismatch", SMOS_FAIL, None)
    ELSE IF entry_config.mapped_block_idx >= tr.max_capacity
    THEN OffsetResult("SMOSMappingError", SMOS_FAIL, None)
    ELSE OffsetResult("", SMOS_SUCCESS, entry_config.mapped_block_idx * block_size)

\* SharedMemoryObject.get_entry_offset: the length check, then the tracks in
\* order; the exception of a track ends the loop.  The call takes no lock.
RECURSIVE OffsetLoop(_, _, _, _, _)
OffsetLoop(tl, block_size_list, entry_config_list, track_idx, offset_list) ==
    IF track_idx > Len(tl)
    THEN OffsetResult("", SMOS_SUCCESS, offset_list)
    ELSE LET r == DT_get_entry_offset(tl[track_idx], block_size_list[track_idx],
                                      entry_config_list[track_idx])
         IN IF r.raised # ""
            THEN r
            ELSE OffsetLoop(tl, block_size_list, entry_config_list, track_idx + 1,
                            Append(offset_list, r.offset))

SMO_get_entry_offset(tl, block_size_list, entry_config_list) ==
    IF Len(entry_config_list) # Len(tl)
    THEN OffsetResult("SMOSDimensionMismatch", SMOS_FAIL, None)
    ELSE OffsetLoop(tl, block_size_list, entry_config_list, 1, <<>>)

\* The descriptors a caller can hand in: of any track or of none, mapped to
\* nothing (-1), to a block of the segment, or beyond it.
OffsetConfigs ==
    {[EntryConfig EXCEPT !.track_name = n, !.mapped_block_idx = b] :
        n \in {NONE_NAME} \cup 0..(TrackCount - 1),
        b \in UNALLOCATED..(MaxCapacity + 1)}

\* The lists a caller can hand in: one descriptor per track, or a list of
\* another length (its descriptors are not looked at).
OffsetQueries ==
    [1..TrackCount -> OffsetConfigs]
        \cup {[i \in 1..n |-> EntryConfig] : n \in (0..(TrackCount + 1)) \ {TrackCount}}

\* The object was created with some block_size_list; nothing was asked yet.
InitOffset ==
    /\ track_list = SharedMemoryObject_tracks(MaxCapacity, TrackCount)
    /\ lock = RWLock
    /\ write_handles = {}
    /\ pop_handles = {}
    /\ read_refs = [k \in Keys |-> 0]
    /\ keys_returned = <<>>
    /\ committed = <<>>
    /\ object_dict = [n \in {ObjectName} |-> 1]
    /\ global_lock = RWLock
    /\ thread = None
    /\ \E block_size_list \in [1..TrackCount -> 1..MaxBlockSize] :
          last = [op |-> "create", block_size_list |-> block_size_list, arg |-> None,
                  raised |-> "", status |-> SMOS_SUCCESS, offset_list |-> None]

\* One query per run: the call changes nothing of the object, so a second
\* query finds what the first one found.
GetEntryOffset ==
    /\ last.op = "create"
    /\ \E entry_config_list \in OffsetQueries :
       \E r \in {SMO_get_entry_offset(track_list, last.block_size_list, entry_config_list)} :
          last' = [op |-> "get_entry_offset", block_size_list |-> last.block_size_list,
                   arg |-> entry_config_list, raised |-> r.raised,
                   status |-> r.status, offset_list |-> r.offset]
    /\ UNCHANGED <<track_list, lock, write_handles, pop_handles, read_refs,
                   keys_returned, committed, thread, object_dict, global_lock>>

NextOffset == GetEntryOffset

SpecOffset == InitOffset /\ [][NextOffset]_vars

(* ------------------------------------------------------------------ *)
(* SpecDims: Spec and calls with a list of another length             *)
(* ------------------------------------------------------------------ *)
\* The lists of a length other than track_count that a client can make of
\* what it has: fresh descriptors, or a handle cut short or made longer.
MismatchLists ==
    {[i \in 1..n |-> EntryConfig] : n \in (0..(TrackCount + 1)) \ {TrackCount}}
        \cup {SubSeq(h, 1, n) : h \in write_handles \cup pop_handles,
                                n \in 1..(TrackCount - 1)}
        \cup {h \o <<EntryConfig>> : h \in write_handles \cup pop_handles}

\* The four calls of the object that take a list of descriptors.
SMO_list_call(op, tl, L, entry_config_list) ==
    CASE op = "allocate_block" -> SMO_allocate_block(tl, L, entry_config_list)
      [] op = "append_entry_config" -> SMO_append_entry_config(tl, L, entry_config_list)
      [] op = "free_block_mapping" -> SMO_free_block_mapping(tl, L, entry_config_list)
      [] op = "get_entry_offset" ->
            LET o == SMO_get_entry_offset(tl, [i \in 1..Len(tl) |-> MaxBlockSize],
                                          entry_config_list)
            IN ObjectResult(tl, L, o.raised, o.status, entry_config_list, None)

\* A call with a list of another length; the client's handles stay as they are.
MismatchCall ==
    \E op \in {"allocate_block", "append_entry_config", "free_block_mapping",
               "get_entry_offset"} :
    \E entry_config_list \in MismatchLists :
    \E r \in {SMO_list_call(op, track_list, lock, entry_config_list)} :
        /\ Returned(op, None, FALSE, entry_config_list, r)
        /\ UNCHANGED <<write_handles, pop_handles, read_refs, keys_returned, committed, thread, object_dict, global_lock>>

NextDims == Next \/ MismatchCall

SpecDims == Init /\ [][NextDims]_vars

(* ------------------------------------------------------------------ *)
(* SpecBad: Spec and commits of a handle with one descriptor spoilt   *)
(* ------------------------------------------------------------------ *)
\* A write handle in which the descriptor of one track was replaced by a
\* fresh one, or by the descriptor of another track.
SpoiltHandles ==
    {[h EXCEPT ![i] = EntryConfig] : h \in write_handles, i \in TrackIdx}
        \cup {[h EXCEPT ![ij[1]] = h[ij[2]]] :
                h \in write_handles,
                ij \in {p \in TrackIdx \X TrackIdx : p[1] # p[2]}}

\* commit_entry with a spoilt handle: append_entry_config
AppendBad ==
    /\ \A i \in TrackIdx : track_list[i].next_key < MaxKey
    /\ writer_enter_free(lock)
    /\ \E entry_config_list \in SpoiltHandles :
       \E r \in {SMO_append_entry_config(track_list, lock, entry_config_list)} :
           /\ Returned("append_entry_config", None, FALSE, entry_config_list, r)
           /\ UNCHANGED <<write_handles, pop_handles, read_refs, keys_returned, committed, thread, object_dict, global_lock>>

NextBad == Next \/ AppendBad

SpecBad == Init /\ [][NextBad]_vars

(* ------------------------------------------------------------------ *)
(* SpecPair: two objects in one store, calls one at a time            *)
(* ------------------------------------------------------------------ *)
\* Here object_dict maps a name to the object stored under it (its tracks
\* and its lock), and a handle is held with the name of its object.
PairNames == {"A", "B"}

\* max_capacity of the objects created
PairCapacity == 1

\* Variant: the objects of the catalog are one object.
StoreUpdate_shared(dict, name, obj) == [n \in DOMAIN dict |-> obj]

\* "self.object_dict[name].<method>(...)": the object found under the name
\* is the one the method changes.
StoreUpdate(dict, name, obj) == [dict EXCEPT ![name] = obj]

PairOps ==
    {"allocate_block", "append_entry_config", "read_entry_config",
     "read_latest_entry_config", "batch_read_entry_config",
     "release_read_reference", "delete_entry_config", "pop_entry_config",
     "free_block_mapping"}

\* The arguments of a call on the object obj stored under name, by clients
\* that follow the handle protocol.
PairArgs(op, name, obj) ==
    CASE op = "allocate_block" -> {[i \in TrackIdx |-> EntryConfig]}
      [] op = "append_entry_config" ->
            {h \in {x[2] : x \in {y \in write_handles : y[1] = name}} :
                obj.track_list[1].next_key < MaxKey}
      [] op = "read_entry_config" -> Keys
      [] op = "read_latest_entry_config" -> {None}
      [] op = "batch_read_entry_config" -> [1..1 -> Keys] \cup [1..2 -> Keys]
      [] op = "release_read_reference" ->
            {k \in Keys : \A i \in TrackIdx :
                /\ k \in DOMAIN obj.track_list[i].entry_config_list
                /\ obj.track_list[i].entry_config_list[k].pending_readers > 0}
      [] op = "delete_entry_config" -> Keys \X BOOLEAN
      [] op = "pop_entry_config" -> BOOLEAN
      [] op = "free_block_mapping" -> {x[2] : x \in {y \in pop_handles : y[1] = name}}

\* the method of the object that the store method calls
PairCall(op, obj, arg) ==
    CASE op = "allocate_block" -> SMO_allocate_block(obj.track_list, obj.lock, arg)
      [] op = "append_entry_config" -> SMO_append_entry_config(obj.track_list, obj.lock, arg)
      [] op = "read_entry_config" -> SMO_read_entry_config(obj.track_list, obj.lock, arg)
      [] op = "read_latest_entry_config" ->
            SMO_read_latest_entry_config(obj.track_list, obj.lock)
      [] op = "batch_read_entry_config" ->
            Store_batch_read_entry_config(obj.track_list, obj.lock, arg)
      [] op = "release_read_reference" ->
            SMO_release_read_reference(obj.track_list, obj.lock, arg)
      [] op = "delete_entry_config" ->
            SMO_delete_entry_config(obj.track_list, obj.lock, arg[1], arg[2])
      [] op = "pop_entry_config" -> SMO_pop_entry_config(obj.track_list, obj.lock, arg)
      [] op = "free_block_mapping" -> SMO_free_block_mapping(obj.track_list, obj.lock, arg)

\* the read references on an entry stay within MaxRefs + 1
PairBounded(tl) ==
    \A i \in DOMAIN tl : \A k \in DOMAIN tl[i].entry_config_list :
        tl[i].entry_config_list[k].pending_readers <= MaxRefs + 1

InitPair ==
    /\ track_list = <<>>
    /\ lock = RWLock
    /\ write_handles = {}
    /\ pop_handles = {}
    /\ read_refs = <<>>
    /\ keys_returned = <<>>
    /\ committed = <<>>
    /\ thread = <<>>
    /\ global_lock = RWLock
    /\ object_dict = <<>>
    /\ last = [op |-> "__init__", name |-> "", arg |-> None, pre |-> <<>>,
               raised |-> "", status |-> SMOS_SUCCESS]

\* what the calls of SpecPair leave alone
PairFrame ==
    UNCHANGED <<track_list, lock, read_refs, keys_returned, committed, thread, global_lock>>

\* create(name, ...) of a name that is free
PairCreate ==
    \E name \in PairNames \ DOMAIN object_dict :
        /\ object_dict' =
              [n \in DOMAIN object_dict \cup {name} |->
                  IF n = name
                  THEN [track_list |-> SharedMemoryObject_tracks(PairCapacity, TrackCount),
                        lock |-> RWLock]
                  ELSE object_dict[n]]
        /\ last' = [op |-> "create", name |-> name, arg |-> None, pre |-> object_dict,
                    raised |-> "", status |-> SMOS_SUCCESS]
        /\ UNCHANGED <<write_handles, pop_handles>>
        /\ PairFrame

\* remove(name) of a name in the catalog; the clients drop its handles
PairRemove ==
    \E name \in DOMAIN object_dict :
        /\ object_dict' = [n \in DOMAIN object_dict \ {name} |-> object_dict[n]]
        /\ last' = [op |-> "remove", name |-> name, arg |-> None, pre |-> object_dict,
                    raised |-> "", status |-> SMOS_SUCCESS]
        /\ write_handles' = {x \in write_handles : x[1] # name}
        /\ pop_handles' = {x \in pop_handles : x[1] # name}
        /\ PairFrame

\* a per-entry call of the store on the object of a name
PairEntry ==
    \E name \in DOMAIN object_dict, op \in PairOps :
    \E arg \in PairArgs(op, name, object_dict[name]) :
    \E r \in {PairCall(op, object_dict[name], arg)} :
        /\ PairBounded(r.track_list)
        /\ object_dict' = StoreUpdate(object_dict, name,
                                      [track_list |-> r.track_list, lock |-> r.lock])
        /\ last' = [op |-> op, name |-> name, arg |-> arg, pre |-> object_dict,
                    raised |-> r.raised, status |-> r.status]
        /\ write_handles' =
              IF op = "allocate_block" /\ r.raised = "" /\ r.status = SMOS_SUCCESS
              THEN write_handles \cup {<<name, r.entry_config_list>>}
              ELSE IF op = "append_entry_config"
              THEN write_handles \ {<<name, arg>>}
              ELSE write_handles
        /\ pop_handles' =
              IF op = "pop_entry_config" /\ r.raised = "" /\ r.status = SMOS_SUCCESS
              THEN pop_handles \cup {<<name, r.entry_config_list>>}
              ELSE IF op = "free_block_mapping"
              THEN pop_handles \ {<<name, arg>>}
              ELSE pop_handles
        /\ PairFrame

NextPair == PairCreate \/ PairRemove \/ PairEntry

SpecPair == InitPair /\ [][NextPair]_vars

(* ------------------------------------------------------------------ *)
(* SpecRetry: safe_execute around a call of the client                *)
(* ------------------------------------------------------------------ *)
\* "if fail_counter > 10"
fail_counter_limit == 10

\* What a call of target that does not raise TypeError does: it returns a
\* status, or raises another exception.
TargetOutcomes ==
    {[raised |-> "", status |-> st] :
        st \in {SMOS_SUCCESS, SMOS_FAIL, SMOS_PERMISSION_DENIED}}
    \cup {[raised |-> e, status |-> SMOS_FAIL] :
        e \in {"SMOSObjectNotFoundError", "SMOSTrackUnaligned", "KeyError"}}

\* safe_execute at "while True", with a target whose first type_errors
\* calls raise TypeError and whose next call ends in outcome.
SafeExecute(type_errors, outcome) ==
    [pc |-> "loop", fail_counter |-> 0, calls |-> 0, type_errors |-> type_errors,
     outcome |-> outcome, result |-> None, raised |-> ""]

\* Variant: TypeError is retried for ever.
safe_execute_step_unbounded(th) ==
    IF th.calls < th.type_errors
    THEN [th EXCEPT !.calls = @ + 1, !.fail_counter = @ + 1]
    ELSE IF th.outcome.raised # ""
    THEN [th EXCEPT !.calls = @ + 1, !.pc = "raised", !.raised = th.outcome.raised]
    ELSE [th EXCEPT !.calls = @ + 1, !.pc = "returned", !.result = <<th.outcome.status>>]

\* One turn of the loop of safe_execute: the call of target and what
\* follows it.
safe_execute_step(th) ==
    IF th.calls < th.type_errors
    THEN IF th.fail_counter > fail_counter_limit
         THEN [th EXCEPT !.calls = @ + 1, !.pc = "raised", !.raised = "TypeError"]
         ELSE [th EXCEPT !.calls = @ + 1, !.fail_counter = @ + 1]
    ELSE IF th.outcome.raised # ""
    THEN [th EXCEPT !.calls = @ + 1, !.pc = "raised", !.raised = th.outcome.raised]
    ELSE [th EXCEPT !.calls = @ + 1, !.pc = "returned", !.result = <<th.outcome.status>>]

InitRetry ==
    /\ InitObject
    /\ \E type_errors \in 0..MaxTypeErrors, outcome \in TargetOutcomes :
          thread = SafeExecute(type_errors, outcome)

SafeExecuteStep ==
    /\ thread.pc = "loop"
    /\ thread' = safe_execute_step(thread)
    /\ UNCHANGED <<track_list, lock, write_handles, pop_handles, read_refs,
                   keys_returned, committed, last, object_dict, global_lock>>

NextRetry == SafeExecuteStep

SpecRetry == InitRetry /\ [][NextRetry]_vars

\* Every call of target terminates: the loop goes on.
FairSpecRetry == SpecRetry /\ WF_vars(SafeExecuteStep)

(* ------------------------------------------------------------------ *)
(* Observations: the state now, and the state the last call found     *)
(* ------------------------------------------------------------------ *)
\* entry_config_list.keys() of track i
LiveKeys(i) == DOMAIN track_list[i].entry_config_list
PreLiveKeys(i) == DOMAIN last.pre.track_list[i].entry_config_list

\* free_block_list.qsize() of track i
FreeCount(i) == Len(track_list[i].free_block_list)
PreFreeCount(i) == Len(last.pre.track_list[i].free_block_list)

\* pending_readers of the descriptor under key k in track i
PendingReaders(i, k) == track_list[i].entry_config_list[k].pending_readers
PrePendingReaders(i, k) == last.pre.track_list[i].entry_config_list[k].pending_readers

\* the blocks of track i that a popped, not yet freed handle refers to
PrePoppedBlocks(i) == {h[i].mapped_block_idx : h \in last.pre.pop_handles}

\* no live descriptor had a pending reader
PreNoPendingReaders ==
    \A i \in TrackIdx : \A k \in PreLiveKeys(i) : PrePendingReaders(i, k) = 0

\* the keys committed and neither deleted nor popped, oldest commit first
InAppendOrder(keys, live) == SelectSeq(keys, LAMBDA k : k \in DOMAIN live)
LiveInAppendOrder == InAppendOrder(keys_returned, committed)
PreLiveInAppendOrder == InAppendOrder(last.pre.keys_returned, last.pre.committed)

(* ------------------------------------------------------------------ *)
(* Claims checked under Spec                                          *)
(* ------------------------------------------------------------------ *)

\* C1 as stated: in every track, after every completed call, free blocks +
\* live entries + popped-but-not-freed handles = max_capacity.
C1_ConservationAsStated ==
    \A i \in TrackIdx :
        FreeCount(i) + Cardinality(LiveKeys(i)) + Cardinality(pop_handles)
            = track_list[i].max_capacity

\* C1 amended: in every track, after every completed call, free blocks +
\* live entries + popped-but-not-freed handles + allocated-but-not-yet-
\* committed handles = max_capacity.
C1_BlockConservation ==
    \A i \in TrackIdx :
        FreeCount(i) + Cardinality(LiveKeys(i)) + Cardinality(pop_handles)
            + Cardinality(write_handles) = track_list[i].max_capacity

\* a pop has just handed out a block while another block is reserved by a
\* write handle
C1_Witness ==
    /\ last.op = "pop_entry_config"
    /\ last.status = SMOS_SUCCESS
    /\ write_handles # {}
    /\ pop_handles # {}

\* C2: the key a successful append returns is greater than every key
\* returned before and every key that was live; no call makes next_key of a
\* track smaller; delete and pop leave next_key as it is, so no key is
\* assigned again.
C2_KeyMonotonicity ==
    /\ \A i \in TrackIdx : track_list[i].next_key >= last.pre.track_list[i].next_key
    /\ (last.op = "append_entry_config" /\ last.raised = "") =>
          /\ last.key # None
          /\ \A j \in DOMAIN last.pre.keys_returned :
                last.pre.keys_returned[j] < last.key[1]
          /\ \A i \in TrackIdx : \A k \in PreLiveKeys(i) : k < last.key[1]
          /\ \A i \in TrackIdx : track_list[i].next_key > last.key[1]
    /\ last.op \in {"delete_entry_config", "pop_entry_config"} =>
          \A i \in TrackIdx : track_list[i].next_key = last.pre.track_list[i].next_key

\* the third append has returned after the entry under key 0 was removed
C2_Witness ==
    /\ last.op = "append_entry_config"
    /\ last.key = <<2>>
    /\ 0 \notin LiveKeys(1)
    /\ keys_returned = <<0, 1, 2>>

\* C6: pop is first in, first out.  While no live entry has a pending
\* reader, a pop returns the descriptors committed under the oldest key that
\* is still live and removes that key alone, so n appends followed by n pops
\* give the n descriptor lists back in append order; a pop of an object
\* with no live entry returns SMOS_FAIL and no descriptors.
C6_FifoPop ==
    (last.op = "pop_entry_config" /\ PreNoPendingReaders) =>
        IF PreLiveInAppendOrder = <<>>
        THEN /\ last.status = SMOS_FAIL
             /\ last.entry_config_list = None
             /\ track_list = last.pre.track_list
        ELSE /\ last.status = SMOS_SUCCESS
             /\ last.key = <<Head(PreLiveInAppendOrder)>>
             /\ last.entry_config_list = last.pre.committed[Head(PreLiveInAppendOrder)]
             /\ LiveInAppendOrder = Tail(PreLiveInAppendOrder)
             /\ \A i \in TrackIdx : LiveKeys(i) = Range(LiveInAppendOrder)

\* two appends, then two pops that returned the two entries, then a pop that
\* returned SMOS_FAIL
C6_Witness ==
    /\ last.op = "pop_entry_config"
    /\ last.status = SMOS_FAIL
    /\ keys_returned = <<0, 1>>
    /\ Cardinality(pop_handles) = 2
    /\ \A h \in pop_handles : \A i \in TrackIdx : h[i].pending_readers = 0

\* C7: delete(key, force) of a live key removes the descriptor from every
\* track and puts its block at the back of each free pool exactly when
\* pending_readers = 0 or force; otherwise it returns SMOS_PERMISSION_DENIED
\* and leaves every track as it was.  The release of the last read reference
\* leaves pending_readers = 0, so that an unforced delete then succeeds.
C7_DeletePermission ==
    /\ (last.op = "delete_entry_config"
          /\ \A i \in TrackIdx : last.idx[1] \in PreLiveKeys(i)) =>
            LET k == last.idx[1]
            IN IF last.force \/ \A i \in TrackIdx : PrePendingReaders(i, k) = 0
               THEN /\ last.status = SMOS_SUCCESS
                    /\ \A i \in TrackIdx :
                         track_list[i] =
                           [last.pre.track_list[i] EXCEPT
                              !.entry_config_list = DictDel(@, k),
                              !.free_block_list =
                                 Append(@, last.pre.track_list[i]
                                              .entry_config_list[k].mapped_block_idx)]
               ELSE /\ last.status = SMOS_PERMISSION_DENIED
                    /\ track_list = last.pre.track_list
    /\ (last.op = "release_read_reference"
          /\ last.pre.read_refs[last.idx[1]] = 1
          /\ \A i \in TrackIdx : last.idx[1] \in PreLiveKeys(i)) =>
            /\ last.status = SMOS_SUCCESS
            /\ last.raised = ""
            /\ \A i \in TrackIdx : PendingReaders(i, last.idx[1]) = 0

\* an unforced delete of an entry that has a reader was denied
C7_Witness ==
    /\ last.op = "delete_entry_config"
    /\ last.status = SMOS_PERMISSION_DENIED
    /\ ~last.force
    /\ \A i \in TrackIdx :
         /\ last.idx[1] \in LiveKeys(i)
         /\ PendingReaders(i, last.idx[1]) > 0

\* C8: an unforced pop returns SMOS_PERMISSION_DENIED and removes nothing
\* whenever the smallest live key has pending readers, whatever the other
\* keys have; a forced pop takes the smallest live key regardless.
C8_PopPermission ==
    (last.op = "pop_entry_config" /\ PreLiveKeys(1) # {}) =>
        LET m == SetMin(PreLiveKeys(1))
        IN IF ~last.force /\ \E i \in TrackIdx : PrePendingReaders(i, m) > 0
           THEN /\ last.status = SMOS_PERMISSION_DENIED
                /\ last.entry_config_list = None
                /\ track_list = last.pre.track_list
                /\ pop_handles = last.pre.pop_handles
           ELSE /\ last.status = SMOS_SUCCESS
                /\ last.key = <<m>>
                /\ \A i \in TrackIdx :
                     /\ LiveKeys(i) = PreLiveKeys(i) \ {m}
                     /\ last.entry_config_list[i]
                           = last.pre.track_list[i].entry_config_list[m]

\* an unforced pop was denied while a larger live key has no reader
C8_Witness ==
    /\ last.op = "pop_entry_config"
    /\ last.status = SMOS_PERMISSION_DENIED
    /\ ~last.force
    /\ \E k \in LiveKeys(1) :
         /\ k > SetMin(LiveKeys(1))
         /\ PendingReaders(1, k) = 0
         /\ PendingReaders(1, SetMin(LiveKeys(1))) > 0

\* C9: allocate_block returns SMOS_FAIL exactly when the free pool is empty,
\* which is exactly when max_capacity blocks are out (reserved, live or
\* popped): on a fresh object exactly max_capacity allocations succeed.  A
\* success takes the head of each pool; a failure leaves every track and the
\* caller's descriptors (mapped_block_idx = -1) as they were.
C9_CapacitySaturation ==
    last.op = "allocate_block" =>
        /\ last.raised = ""
        /\ (last.status = SMOS_FAIL) <=> (\A i \in TrackIdx : PreFreeCount(i) = 0)
        /\ (last.status = SMOS_FAIL) <=>
              (Cardinality(last.pre.write_handles) + Cardinality(PreLiveKeys(1))
                 + Cardinality(last.pre.pop_handles) = track_list[1].max_capacity)
        /\ (last.status # SMOS_FAIL) =>
              /\ last.status = SMOS_SUCCESS
              /\ \A i \in TrackIdx :
                   /\ track_list[i].free_block_list
                         = Tail(last.pre.track_list[i].free_block_list)
                   /\ last.entry_config_list[i].mapped_block_idx
                         = Head(last.pre.track_list[i].free_block_list)
        /\ (last.status = SMOS_FAIL) =>
              /\ track_list = last.pre.track_list
              /\ write_handles = last.pre.write_handles
              /\ last.entry_config_list = last.arg
              /\ \A i \in TrackIdx : last.arg[i].mapped_block_idx = UNALLOCATED

\* max_capacity allocations succeeded, nothing was committed or returned, and
\* the next allocation failed
C9_Witness ==
    /\ last.op = "allocate_block"
    /\ last.status = SMOS_FAIL
    /\ Cardinality(write_handles) = MaxCapacity
    /\ keys_returned = <<>>

\* C10: a successful pop removes the key from the live map and leaves the
\* free pool and next_key as they were; the popped block is in no free pool
\* and allocate_block never hands it out until free_block_mapping puts it at
\* the back of the pool.  With every block live or popped, allocate_block
\* returns SMOS_FAIL; once a popped handle is freed the block can be
\* allocated and appended, under a key greater than all earlier keys.
C10_PopKeepsBlock ==
    /\ (last.op = "pop_entry_config" /\ last.status = SMOS_SUCCESS) =>
          \A i \in TrackIdx :
             /\ track_list[i].free_block_list = last.pre.track_list[i].free_block_list
             /\ track_list[i].next_key = last.pre.track_list[i].next_key
             /\ LiveKeys(i) = PreLiveKeys(i) \ {last.key[1]}
             /\ last.key[1] \in PreLiveKeys(i)
    /\ \A h \in pop_handles : \A i \in TrackIdx :
          h[i].mapped_block_idx \notin Range(track_list[i].free_block_list)
    /\ last.op = "allocate_block" =>
          /\ \A i \in TrackIdx :
                last.entry_config_list[i].mapped_block_idx \notin PrePoppedBlocks(i)
          /\ (Cardinality(PreLiveKeys(1)) + Cardinality(last.pre.pop_handles)
                 = track_list[1].max_capacity) => last.status = SMOS_FAIL
    /\ last.op = "free_block_mapping" =>
          /\ last.status = SMOS_SUCCESS
          /\ last.raised = ""
          /\ \A i \in TrackIdx :
                track_list[i].free_block_list
                   = Append(last.pre.track_list[i].free_block_list,
                            last.arg[i].mapped_block_idx)
    /\ last.op = "append_entry_config" =>
          /\ last.status = SMOS_SUCCESS
          /\ \A j \in DOMAIN last.pre.keys_returned :
                last.pre.keys_returned[j] < last.key[1]

\* the object was full, one entry was popped and not freed, and the
\* allocation that followed failed
C10_Witness ==
    /\ last.op = "allocate_block"
    /\ last.status = SMOS_FAIL
    /\ Cardinality(pop_handles) = 1
    /\ Cardinality(LiveKeys(1)) = MaxCapacity - 1
    /\ write_handles = {}

(* ------------------------------------------------------------------ *)
(* Claims checked under SpecAny                                       *)
(* ------------------------------------------------------------------ *)

\* C4: pending_readers of every live descriptor is >= 0 in every reachable
\* state, the state a release that raised SMOSReadRefDoubleRelease leaves
\* included.
C4_PendingReadersNonNegative ==
    \A i \in TrackIdx : \A k \in LiveKeys(i) : PendingReaders(i, k) >= 0

\* a release has raised SMOSReadRefDoubleRelease
C4_Witness ==
    /\ last.op = "release_read_reference"
    /\ last.raised = "SMOSReadRefDoubleRelease"

(* ------------------------------------------------------------------ *)
(* Claims checked under SpecReaders and SpecConc                      *)
(* ------------------------------------------------------------------ *)
\* the threads inside the critical section of the object's lock
InSection ==
    {t \in Threads :
        thread[t].pc \in {"writer_track", "writer_leave", "load", "store", "check",
                          "reader_leave"}}

\* the clients that hold a read reference to key k
Holders(k) == {t \in Threads : thread[t].ref = <<k>>}

\* C5: when every client pairs each successful read with one later release
\* of the same key and no client deletes or pops, no release raises
\* SMOSReadRefDoubleRelease, and whenever no read or release is in progress
\* pending_readers of each live entry is the number of read references not
\* yet released.
C5_PairedReleases ==
    /\ \A t \in Threads : thread[t].raised # "SMOSReadRefDoubleRelease"
    /\ (\A t \in Threads : thread[t].pc = "idle") =>
           \A i \in TrackIdx : \A k \in LiveKeys(i) :
              PendingReaders(i, k) = Cardinality(Holders(k))

\* C3: whenever no call is inside the critical section of the object's
\* lock, and the lock is free, all tracks have the same live keys and the
\* same next_key.
C3_TracksAligned ==
    (/\ InSection = {}
     /\ lock.reader_count = 0
     /\ ~lock.readwrite_lock) =>
        \A i \in TrackIdx :
           /\ LiveKeys(i) = LiveKeys(1)
           /\ track_list[i].next_key = track_list[1].next_key

C12_BatchRead ==
    /\ last.op = "batch_read_entry_config" =>
          LET idx_batch == last.idx
              n == ReadPrefix(idx_batch, PreLiveKeys(1), 0)
          IN /\ last.raised = ""
             /\ last.status \in {SMOS_SUCCESS, SMOS_FAIL}
             /\ last.status = SMOS_SUCCESS <=>
                   \A j \in 1..Len(idx_batch) : idx_batch[j] \in PreLiveKeys(1)
             /\ last.status = SMOS_SUCCESS =>
                   /\ Len(last.entry_config_list) = Len(idx_batch)
                   /\ \A j \in 1..Len(idx_batch) : \A i \in TrackIdx :
                         /\ last.entry_config_list[j][i].mapped_block_idx =
                               track_list[i].entry_config_list[idx_batch[j]].mapped_block_idx
                         /\ last.entry_config_list[j][i].track_name =
                               track_list[i].track_name
             /\ last.status = SMOS_FAIL =>
                   /\ last.entry_config_list = None
                   /\ n < Len(idx_batch)
             /\ \A i \in TrackIdx :
                   /\ LiveKeys(i) = PreLiveKeys(i)
                   /\ \A k \in LiveKeys(i) :
                         PendingReaders(i, k) =
                            PrePendingReaders(i, k) + Occurrences(idx_batch, n, k)
                   /\ track_list[i].free_block_list = last.pre.track_list[i].free_block_list
                   /\ track_list[i].next_key = last.pre.track_list[i].next_key
    /\ (/\ last.op = "delete_entry_config"
        /\ ~last.force
        /\ last.idx[1] \in PreLiveKeys(1)
        /\ last.pre.read_refs[last.idx[1]] > 0) =>
           /\ last.status = SMOS_PERMISSION_DENIED
           /\ track_list = last.pre.track_list

\* a batch of three keys, the first and the last live and the second
\* missing, has returned SMOS_FAIL: the first key has a reader more, the
\* last has none
C12_Witness ==
    /\ last.op = "batch_read_entry_config"
    /\ last.status = SMOS_FAIL
    /\ Len(last.idx) = 3
    /\ last.idx[1] \in LiveKeys(1)
    /\ last.idx[2] \notin LiveKeys(1)
    /\ last.idx[3] \in LiveKeys(1)
    /\ last.idx[3] # last.idx[1]
    /\ PendingReaders(1, last.idx[1]) = 1
    /\ PendingReaders(1, last.idx[3]) = 0

(* ------------------------------------------------------------------ *)
(* Claims checked under SpecLock and FairSpecLock                     *)
(* ------------------------------------------------------------------ *)
\* C13: at most one writer is inside the lock, and no reader is inside
\* while a writer is; readers may be inside together.
C13_MutualExclusion ==
    LET writers == {t \in LockThreads : thread[t].pc = "in_w"}
        readers == {t \in LockThreads : thread[t].pc = "in_r"}
    IN /\ Cardinality(writers) <= 1
       /\ writers # {} => readers = {}

\* two readers are inside together while a writer waits for them
C13_Witness ==
    /\ Cardinality({t \in LockThreads : thread[t].pc = "in_r"}) = 2
    /\ WaitingWriters # {}

\* C14: a reader that called reader_enter while a writer was waiting,
\* writer_lock in hand, is not inside before that writer has entered and
\* left.
C14_WriterPreference ==
    \A t \in LockThreads : thread[t].pc = "in_r" => thread[t].ahead = {}

\* a reader that called while a writer was waiting is inside, after the
\* writer has left
C14_Witness ==
    \E t \in LockThreads : thread[t].pc = "in_r" /\ thread[t].gated

Unlinking(u, name) ==
    \/ thread[u].op = "remove" /\ thread[u].name = name /\ thread[u].pc \in {"unlink", "body"}
    \/ thread[u].op = "stop" /\ thread[u].pc = "unlink"

\* C16: object names are unique in the store.  No name of the catalog ever
\* has an object stored over another one; a create that has passed its
\* lookup finds the name still free when it stores the object, so of the
\* creates of one name that run at the same time at most one is past the
\* lookup and returns SMOS_SUCCESS; a create that raised
\* SMOSObjectExistError has left the name in the catalog with the object
\* that was there.
C16_CreateUniqueness ==
    /\ \A n \in DOMAIN object_dict : object_dict[n] = 1
    /\ \A t \in LockThreads :
          thread[t].op = "create" =>
             /\ thread[t].pc = "body" => thread[t].name \notin DOMAIN object_dict
             /\ thread[t].raised = "SMOSObjectExistError" =>
                   /\ thread[t].name \in DOMAIN object_dict
                   /\ object_dict[thread[t].name] = 1
             /\ thread[t].pc \in {"body", "in_w", "wl2"} =>
                   \A u \in LockThreads \ {t} :
                      ~ (/\ thread[u].op = "create"
                         /\ thread[u].name = thread[t].name
                         /\ thread[u].pc \in {"check", "body", "in_w", "wl2"})

\* Two creates of one name at the same time: one is storing the object, the
\* other one waits for the store lock.
C16_Witness ==
    \E t, u \in LockThreads :
        /\ t # u
        /\ thread[t].op = "create" /\ thread[t].pc = "body"
        /\ thread[u].op = "create" /\ thread[u].pc \in {"we1", "we2"}
        /\ thread[u].name = thread[t].name

C18_LockFreeAfterError ==
    ( /\ \A t \in LockThreads :
            /\ thread[t].pc \in {"out", "raised"}
            /\ thread[t].raised \in {"", "SMOSObjectExistError", "SMOSObjectNotFoundError"}
      /\ \E t \in LockThreads : thread[t].pc = "raised" )
    => global_lock = RWLock

(* ------------------------------------------------------------------ *)
(* Releases without a read (SpecAny)                                  *)
(* ------------------------------------------------------------------ *)
\* C19: a release without a matching read is signalled.  A
\* release_read_reference on a live entry that finds pending_readers = 0 on
\* a track, or that is issued when every read of the entry has been matched
\* by an earlier release (read_refs = 0: with it the releases outnumber the
\* reads), raises SMOSReadRefDoubleRelease in that very call.
C19_DoubleReleaseSignalled ==
    ( /\ last.op = "release_read_reference"
      /\ \A i \in TrackIdx : last.idx[1] \in PreLiveKeys(i)
      /\ \/ last.pre.read_refs[last.idx[1]] = 0
         \/ \E i \in TrackIdx : PrePendingReaders(i, last.idx[1]) = 0 )
    => last.raised = "SMOSReadRefDoubleRelease"

\* A live entry with no reader on any track and no read outstanding was
\* released, and the release has raised.
C19_Witness ==
    /\ last.op = "release_read_reference"
    /\ \A i \in TrackIdx : last.idx[1] \in PreLiveKeys(i)
    /\ last.pre.read_refs[last.idx[1]] = 0
    /\ \A i \in TrackIdx : PrePendingReaders(i, last.idx[1]) = 0
    /\ last.raised = "SMOSReadRefDoubleRelease"

(* ------------------------------------------------------------------ *)
(* Offsets (SpecOffset)                                               *)
(* ------------------------------------------------------------------ *)
\* C20: every offset that get_entry_offset returns for a track is
\* mapped_block_idx * block_size of that track's descriptor, and the block
\* at that offset ends inside the segment: offset + block_size <=
\* block_size * max_capacity.  A list with a descriptor whose
\* mapped_block_idx >= max_capacity yields no offsets: the call raises, and
\* what it raises is SMOSMappingError when the descriptors before it pass
\* and it names its track.
C20_OffsetInSegment ==
    last.op = "get_entry_offset" =>
       /\ last.raised = "" =>
             /\ Len(last.offset_list) = TrackCount
             /\ \A i \in TrackIdx :
                   /\ last.offset_list[i]
                         = last.arg[i].mapped_block_idx * last.block_size_list[i]
                   /\ last.offset_list[i] + last.block_size_list[i]
                         <= last.block_size_list[i] * track_list[i].max_capacity
       /\ \A i \in 1..Len(last.arg) :
             last.arg[i].mapped_block_idx >= MaxCapacity =>
                /\ last.raised # ""
                /\ last.offset_list = None
                /\ ( /\ Len(last.arg) = TrackCount
                     /\ \A j \in 1..i : last.arg[j].track_name = track_list[j].track_name
                     /\ \A j \in 1..(i - 1) : last.arg[j].mapped_block_idx < MaxCapacity )
                   => last.raised = "SMOSMappingError"

\* The offsets of the last block of every track were returned: the blocks
\* end where the segments end.
C20_Witness ==
    /\ last.op = "get_entry_offset"
    /\ last.raised = ""
    /\ \A i \in TrackIdx :
          /\ last.arg[i].mapped_block_idx = MaxCapacity - 1
          /\ last.offset_list[i] + last.block_size_list[i]
                = last.block_size_list[i] * MaxCapacity
    /\ \E i \in TrackIdx : last.block_size_list[i] > 1

(* ------------------------------------------------------------------ *)
(* Concurrent appends (SpecConc)                                      *)
(* ------------------------------------------------------------------ *)
\* the appends inside the writer section
AppendsInSection ==
    {t \in Threads : /\ thread[t].op = "append_entry_config"
                     /\ thread[t].pc \in {"writer_track", "writer_leave"}}

\* C21: under any interleaving, every track gives an append the same key,
\* which is the number of appends that were in the writer section before
\* it: the keys of distinct appends differ and grow in the order in which
\* the appends get the writer side.  No append raises (SMOSTrackUnaligned
\* or anything else) for descriptors of a successful allocate_block.
C21_AppendKeys ==
    /\ [](\A t \in Threads :
            /\ thread[t].op = "append_entry_config" => thread[t].raised = ""
            /\ t \in AppendsInSection =>
                  \A j \in TrackIdx :
                     IF j <= Len(thread[t].status_list)
                     THEN /\ thread[t].status_list[j] = thread[t].status_list[1]
                          /\ thread[t].status_list[j] = <<track_list[j].next_key - 1>>
                     ELSE track_list[j].next_key
                              = track_list[TrackCount].next_key)
    /\ [](AppendsInSection = {} =>
             \A j \in TrackIdx : track_list[j].next_key = track_list[1].next_key)
    /\ [][\A j \in TrackIdx :
            \/ track_list'[j].next_key = track_list[j].next_key
            \/ /\ track_list'[j].next_key = track_list[j].next_key + 1
               /\ \E t \in AppendsInSection :
                     /\ Len(thread'[t].status_list) = j
                     /\ thread'[t].status_list[j] = <<track_list[j].next_key>>]_vars

\* The second append has been given key 1 by every track and is about to
\* return it, while the other client is in a call of its own.
C21_Witness ==
    \E t, u \in Threads :
        /\ thread[t].op = "append_entry_config"
        /\ thread[t].pc = "writer_leave"
        /\ thread[t].status_list = [j \in TrackIdx |-> <<1>>]
        /\ thread[u].pc \notin {"idle", "raised"}

(* ------------------------------------------------------------------ *)
(* Concurrent allocate_block (SpecReaders)                            *)
(* ------------------------------------------------------------------ *)
\* C22: no interleaving of concurrent allocate_block calls makes the
\* statuses of the tracks disagree: an allocate_block that has asked some
\* tracks has got a block from each of them or from none, and none raises
\* SMOSTrackUnaligned.
C22_AllocateAllOrNone ==
    \A t \in Threads :
        thread[t].op = "allocate_block" =>
           /\ thread[t].raised # "SMOSTrackUnaligned"
           /\ Cardinality(Range(thread[t].status_list)) <= 1

(* ------------------------------------------------------------------ *)
(* Concurrent pushers and poppers (SpecQueue)                         *)
(* ------------------------------------------------------------------ *)
\* the pop that asks a track in this step
PopTurns ==
    {t \in Threads : /\ thread[t].op = "pop_entry_config"
                     /\ thread[t].pc = "writer_track"
                     /\ thread'[t] # thread[t]}

\* C23: pushers and poppers in any interleaving.  A pop takes from every
\* track the smallest live key, which is the same key on every track and
\* was committed (it is below next_key), and returns the descriptors that
\* the tracks held under it; a pop that finds a track empty finds every
\* track empty.  A key that has left the live map of a track never comes
\* back, so no key is returned by two pops.  No pop raises.
C23_PopOnce ==
    /\ [](\A t \in Threads :
            thread[t].op = "pop_entry_config" => thread[t].raised = "")
    /\ [][\A t \in PopTurns :
            LET j == thread[t].i IN
            IF LiveKeys(j) = {}
            THEN /\ thread'[t].status_list = Append(thread[t].status_list, SMOS_FAIL)
                 /\ \A n \in TrackIdx : LiveKeys(n) = {}
            ELSE LET k == SetMin(LiveKeys(j)) IN
                 /\ thread'[t].status_list = Append(thread[t].status_list, SMOS_SUCCESS)
                 /\ thread'[t].entry_config_list
                        = Append(thread[t].entry_config_list,
                                 track_list[j].entry_config_list[k])
                 /\ k < track_list[j].next_key
                 /\ DOMAIN track_list'[j].entry_config_list = LiveKeys(j) \ {k}
                 /\ \A n \in TrackIdx :
                       /\ n < j => LiveKeys(n) = LiveKeys(j) \ {k}
                       /\ n > j => LiveKeys(n) = LiveKeys(j)]_vars
    /\ [][\A j \in TrackIdx : \A k \in 0..(track_list[j].next_key - 1) :
            k \notin LiveKeys(j) => k \notin DOMAIN track_list'[j].entry_config_list]_vars

\* A pop has taken key 0 from every track while key 1 is live, and the
\* other client is in a call of its own.
C23_Witness ==
    \E t, u \in Threads :
        /\ thread[t].op = "pop_entry_config"
        /\ thread[t].pc = "writer_leave"
        /\ thread[t].status_list = [j \in TrackIdx |-> SMOS_SUCCESS]
        /\ \A j \in TrackIdx : LiveKeys(j) = {1}
        /\ thread[u].pc \notin {"idle", "raised"}

(* ------------------------------------------------------------------ *)
(* Readers against unforced deletes and pops (SpecUnforced)           *)
(* ------------------------------------------------------------------ *)
\* C24: while a client holds a read reference to key k that it has not
\* released, and no delete or pop is forced, k is in the live map of every
\* track and the block it is mapped to is not in the free pool of the track.
C24_StableWhileHeld ==
    \A t \in Threads :
        thread[t].ref # None =>
           \A i \in TrackIdx :
              /\ thread[t].ref[1] \in LiveKeys(i)
              /\ track_list[i].entry_config_list[thread[t].ref[1]].mapped_block_idx
                    \notin Range(track_list[i].free_block_list)

(* ------------------------------------------------------------------ *)
(* The client's retry (FairSpecRetry)                                 *)
(* ------------------------------------------------------------------ *)
\* C25: safe_execute is a bounded retry.  It calls target at most 12 times;
\* it calls again only after a TypeError; it returns what the first call
\* that does not raise TypeError returns, and lets any other exception out
\* of the call that raised it; it raises TypeError on the 12th TypeError,
\* the one that finds fail_counter = 11 > 10; and it always ends.
C25_BoundedRetry ==
    /\ [](/\ thread.calls <= fail_counter_limit + 2
          /\ thread.pc = "loop" =>
                /\ thread.calls = thread.fail_counter
                /\ thread.calls <= thread.type_errors
                /\ thread.fail_counter <= fail_counter_limit + 1
          /\ thread.pc = "returned" =>
                /\ thread.calls = thread.type_errors + 1
                /\ thread.outcome.raised = ""
                /\ thread.result = <<thread.outcome.status>>
                /\ thread.raised = ""
          /\ thread.pc = "raised" =>
                /\ thread.result = None
                /\ IF thread.raised = "TypeError"
                   THEN /\ thread.calls = 12
                        /\ thread.fail_counter = 11
                        /\ thread.type_errors >= 12
                   ELSE /\ thread.raised = thread.outcome.raised
                        /\ thread.calls = thread.type_errors + 1)
    /\ <>(thread.pc # "loop")

\* The 12th call is the first that does not raise TypeError, and
\* safe_execute has returned its result.
C25_Witness ==
    /\ thread.pc = "returned"
    /\ thread.calls = 12
    /\ thread.type_errors = 11
    /\ thread.result = <<SMOS_SUCCESS>>

(* ------------------------------------------------------------------ *)
(* Calls on keys that are not live (SpecAny)                          *)
(* ------------------------------------------------------------------ *)
\* C26: read_entry_config, release_read_reference and delete_entry_config
\* on a key that is in no live map (never assigned, deleted or popped, also
\* force-popped under a reader) return SMOS_FAIL, raise nothing, return no
\* descriptor, and leave the tracks as they were: live maps,
\* pending_readers, free pools and next_key.
C26_MissingKeyFails ==
    ( /\ last.op \in {"read_entry_config", "release_read_reference",
                      "delete_entry_config"}
      /\ \A i \in TrackIdx : last.idx[1] \notin PreLiveKeys(i) )
    => /\ last.raised = ""
       /\ last.status = SMOS_FAIL
       /\ last.entry_config_list = None
       /\ track_list = last.pre.track_list

\* A reader held a reference to a key that was popped by force, and its
\* release has returned SMOS_FAIL.
C26_Witness ==
    /\ last.op = "release_read_reference"
    /\ \A i \in TrackIdx : last.idx[1] \notin PreLiveKeys(i)
    /\ last.idx[1] < last.pre.track_list[1].next_key
    /\ last.pre.read_refs[last.idx[1]] > 0
    /\ last.status = SMOS_FAIL

(* ------------------------------------------------------------------ *)
(* Queue calls on an object with no live entry (SpecLatest)           *)
(* ------------------------------------------------------------------ *)
\* C27: pop_entry_config and read_latest_entry_config on an object with no
\* live entry return SMOS_FAIL and no descriptor, raise nothing and change
\* nothing: the tracks, the handles that clients hold and the read
\* references are as before, whether or not blocks are reserved by write
\* handles or by popped handles that were not freed.
C27_EmptyFails ==
    ( /\ last.op \in {"pop_entry_config", "read_latest_entry_config"}
      /\ \A i \in TrackIdx : PreLiveKeys(i) = {} )
    => /\ last.raised = ""
       /\ last.status = SMOS_FAIL
       /\ last.entry_config_list = None
       /\ track_list = last.pre.track_list
       /\ write_handles = last.pre.write_handles
       /\ pop_handles = last.pre.pop_handles
       /\ read_refs = last.pre.read_refs

\* A pop has failed on an object with no live entry, one block reserved by
\* a write handle and one by a popped handle.
C27_Witness ==
    /\ last.op = "pop_entry_config"
    /\ \A i \in TrackIdx : PreLiveKeys(i) = {}
    /\ last.pre.write_handles # {}
    /\ last.pre.pop_handles # {}
    /\ last.status = SMOS_FAIL

(* ------------------------------------------------------------------ *)
(* Reserved blocks (SpecAll)                                          *)
(* ------------------------------------------------------------------ *)
\* the blocks of track i that write handles reserve
ReservedBlocks(i) == {h[i].mapped_block_idx : h \in write_handles}

\* the descriptors of track i that the last call returned
ReturnedConfigs(i) ==
    IF last.op = "batch_read_entry_config"
    THEN {last.entry_config_list[j][i] : j \in 1..Len(last.entry_config_list)}
    ELSE {last.entry_config_list[i]}

\* C28: a successful allocate_block takes the index at the head of each
\* track's free pool and nothing else out of it, writes that index and the
\* name of the track into the caller's descriptor, and leaves the live map
\* (with its pending_readers) and next_key of every track as they were.  No
\* live entry is mapped to a reserved block, and no descriptor returned by
\* read_entry_config, read_latest_entry_config, batch_read_entry_config or
\* pop_entry_config is.
C28_AllocateReserves ==
    /\ ( /\ last.op = "allocate_block"
         /\ last.raised = ""
         /\ last.status = SMOS_SUCCESS )
       => \A i \in TrackIdx :
             /\ last.pre.track_list[i].free_block_list
                   = <<last.entry_config_list[i].mapped_block_idx>>
                        \o track_list[i].free_block_list
             /\ last.entry_config_list[i].mapped_block_idx
                   \notin Range(track_list[i].free_block_list)
             /\ last.entry_config_list[i].track_name = track_list[i].track_name
             /\ track_list[i].entry_config_list
                   = last.pre.track_list[i].entry_config_list
             /\ track_list[i].next_key = last.pre.track_list[i].next_key
    /\ \A i \in TrackIdx : \A k \in LiveKeys(i) :
          track_list[i].entry_config_list[k].mapped_block_idx \notin ReservedBlocks(i)
    /\ ( /\ last.op \in {"read_entry_config", "read_latest_entry_config",
                         "batch_read_entry_config", "pop_entry_config"}
         /\ last.raised = ""
         /\ last.status = SMOS_SUCCESS )
       => \A i \in TrackIdx : \A ec \in ReturnedConfigs(i) :
             ec.mapped_block_idx \notin ReservedBlocks(i)

\* read_latest_entry_config has returned the committed entry while a block
\* allocated after the commit is reserved.
C28_Witness ==
    /\ last.op = "read_latest_entry_config"
    /\ last.status = SMOS_SUCCESS
    /\ write_handles # {}
    /\ \A i \in TrackIdx :
          \A h \in write_handles :
             h[i].mapped_block_idx > last.entry_config_list[i].mapped_block_idx

(* ------------------------------------------------------------------ *)
(* The free pool under concurrent calls (SpecPool)                    *)
(* ------------------------------------------------------------------ *)
\* C29: whatever the interleaving of allocate_block, free_block_mapping and
\* delete_entry_config, the free pool of a track holds no block index twice
\* and at most max_capacity indices, and no thread waits in the insertion
\* into the pool.
C29_PoolExclusive ==
    /\ \A i \in TrackIdx :
          /\ Cardinality(Range(track_list[i].free_block_list))
                = Len(track_list[i].free_block_list)
          /\ Len(track_list[i].free_block_list) <= track_list[i].max_capacity
    /\ \A t \in Threads : ~PutBlocked(t)

(* ------------------------------------------------------------------ *)
(* The second release of a handle (SpecRelease)                       *)
(* ------------------------------------------------------------------ *)
\* C30: free_block_mapping called a second time with a popped handle raises
\* SMOSBlockDoubleRelease and leaves the free pool of every track as it
\* was, whatever calls were made between the two releases.
C30_SecondReleaseRaises ==
    [][FreeAgain =>
         /\ last'.raised = "SMOSBlockDoubleRelease"
         /\ \A i \in TrackIdx :
               track_list'[i].free_block_list = track_list[i].free_block_list]_vars

(* ------------------------------------------------------------------ *)
(* Lists of another length (SpecDims)                                 *)
(* ------------------------------------------------------------------ *)
\* C31: allocate_block, append_entry_config, free_block_mapping and
\* get_entry_offset of the object, called with a list whose length is not
\* track_count, raise SMOSDimensionMismatch; the free pool, the live map and
\* next_key of every track are as before the call and no mutex of the
\* object's lock is held after it.
C31_DimensionMismatch ==
    ( /\ last.op \in {"allocate_block", "append_entry_config", "free_block_mapping",
                      "get_entry_offset"}
      /\ Len(last.arg) # TrackCount )
    => /\ last.raised = "SMOSDimensionMismatch"
       /\ track_list = last.pre.track_list
       /\ lock = RWLock

\* append_entry_config has been called with a write handle cut short while
\* an entry is live.
C31_Witness ==
    /\ last.op = "append_entry_config"
    /\ last.raised = "SMOSDimensionMismatch"
    /\ Len(last.arg) = TrackCount - 1
    /\ last.arg[1].mapped_block_idx # UNALLOCATED
    /\ \A i \in TrackIdx : LiveKeys(i) # {}

(* ------------------------------------------------------------------ *)
(* Who holds a block (SpecQueue)                                      *)
(* ------------------------------------------------------------------ *)
\* no call of the object is under way
Quiescent == \A t \in Threads : thread[t].pc \in {"idle", "raised"}

\* how many hold block b of track i: places in the free pool, write
\* handles, live entries and popped handles
BlockHolders(i, b) ==
    Cardinality({j \in 1..Len(track_list[i].free_block_list) :
                    track_list[i].free_block_list[j] = b})
    + Cardinality({h \in write_handles : h[i].mapped_block_idx = b})
    + Cardinality({k \in LiveKeys(i) :
                    track_list[i].entry_config_list[k].mapped_block_idx = b})
    + Cardinality({h \in pop_handles : h[i].mapped_block_idx = b})

\* C32: with clients that commit a handle at most once and free only popped
\* handles, each at most once, whenever no call is under way every block
\* index 0..max_capacity-1 of every track is held by exactly one of the
\* free pool, a write handle, a live entry and a popped handle.
C32_ExclusiveOwnership ==
    Quiescent =>
        \A i \in TrackIdx : \A b \in 0..(track_list[i].max_capacity - 1) :
            BlockHolders(i, b) = 1

(* ------------------------------------------------------------------ *)
(* The object's lock after a track has raised (SpecAny)               *)
(* ------------------------------------------------------------------ *)
\* C33: when a call has raised SMOSEntryUnallocated, SMOSTrackMismatch,
\* SMOSReadRefDoubleRelease or SMOSBlockDoubleRelease out of the critical
\* section of the object's lock, the lock has been released: no mutex of it
\* is held and reader_count is 0, so that a later call can enter.
C33_LockReleasedOnRaise ==
    last.raised \in {"SMOSEntryUnallocated", "SMOSTrackMismatch",
                     "SMOSReadRefDoubleRelease", "SMOSBlockDoubleRelease"}
        => lock = RWLock

(* ------------------------------------------------------------------ *)
(* A commit that raises (SpecBad)                                     *)
(* ------------------------------------------------------------------ *)
\* C34: when append_entry_config raises SMOSEntryUnallocated or
\* SMOSTrackMismatch because of the descriptor of one track, the live map
\* and next_key of every track are as they were before the call.
C34_AppendAllOrNothing ==
    ( /\ last.op = "append_entry_config"
      /\ last.raised \in {"SMOSEntryUnallocated", "SMOSTrackMismatch"} )
    => \A i \in TrackIdx :
          /\ track_list[i].entry_config_list = last.pre.track_list[i].entry_config_list
          /\ track_list[i].next_key = last.pre.track_list[i].next_key

(* ------------------------------------------------------------------ *)
(* The two locks together (FairSpecLevels)                            *)
(* ------------------------------------------------------------------ *)
\* the calls in progress
InCall == {t \in LockThreads : thread[t].phase # "idle"}

LockThreadsAt(pcs) == {t \in LockThreads : thread[t].pc \in pcs}

\* the threads that hold readwrite_lock with their entering method still to
\* return: a reader between its increment and the release of writer_lock
\* (writer_enter returns on acquiring readwrite_lock, so no writer is here)
MidEnter == LockThreadsAt({"re4", "re5"})

C38_NoNegativeOffset ==
    last.op = "get_entry_offset" =>
       /\ last.raised = "" =>
             \A i \in 1..Len(last.offset_list) : last.offset_list[i] >= 0
       /\ ( /\ Len(last.arg) = TrackCount
            /\ \E i \in TrackIdx :
                  /\ last.arg[i].track_name = track_list[i].track_name
                  /\ last.arg[i].mapped_block_idx = UNALLOCATED )
          => /\ last.raised # ""
             /\ last.offset_list = None

====
